---- MODULE Spec2Model ----
(***************************************************************************)
(* A model of the RAML -> OAS converter and OAS payload validator of       *)
(* src/converter.ts.  Its components are modelled, each with its own       *)
(* specification over the same variables:                                  *)
(*   SpecInclude   the include expander (convertRamlToOas' pass loop,      *)
(*                 resolveIncludes, getIncludedContent)                    *)
(*   SpecTraits    resolveTraits / applyTraitsToResource                   *)
(*   SpecMapper    convertResource / convertMethod                         *)
(*   SpecValidate  validatePayload / validateParameters /                  *)
(*                 validateAgainstSchema / resolveRef                      *)
(*   SpecTypes     resolveLocalTypeReferences (FairTypes: with fairness)   *)
(*   SpecText      resolveIncludes on text, by both callers                *)
(*   SpecNormalize autoFixYamlIndentation, then autoFixYamlStructure       *)
(*   SpecFlattenOas  flattenOas and its closure resolveRefs                *)
(*   SpecInvocations two invocations with their steps interleaved          *)
(*   SpecSchemas   convertDataType / convertBodySchema                      *)
(***************************************************************************)
EXTENDS Integers, Sequences, FiniteSets, TLC

VARIABLES
    \* ---- include expander ----
    files,            \* FileMap: path -> content (a sequence of lines)
    resolvedContent,  \* convertRamlToOas: let resolvedContent
    iteration,        \* convertRamlToOas: let iteration
    stack,            \* active resolveIncludes calls, outermost first
    incStatus,        \* "running" | "returned" | "thrown"
    \* ---- trait resolver ----
    ramlData,         \* the parsed RAML tree handed to resolveTraits
    resolvedRaml,     \* the tree resolveTraits returns (ramlData, mutated)
    traitStatus,      \* "input" | "resolved"
    \* ---- structural mapper ----
    ramlTree,         \* the parsed RAML tree handed to convertRamlToOasSpec
    oasPaths,         \* oas.paths built by convertResource
    mapStatus,        \* "input" | "mapped"
    \* ---- validator ----
    request,          \* the document and the options handed to validatePayload
    outcome,          \* what validatePayload returned or threw
    valStatus,        \* "input" | "done"
    \* ---- functions of their arguments alone ----
    call,             \* the arguments of the call being made
    result,           \* what the call returned
    callStatus        \* "called" | "returned"

includeVars  == <<files, resolvedContent, iteration, stack, incStatus>>
traitVars    == <<ramlData, resolvedRaml, traitStatus>>
mapperVars   == <<ramlTree, oasPaths, mapStatus>>
validateVars == <<request, outcome, valStatus>>
callVars     == <<call, result, callStatus>>
vars == <<includeVars, traitVars, mapperVars, validateVars, callVars>>

\* A value for "no value" (JavaScript undefined / an absent key).
Absent == "__absent__"

\* The components a specification does not exercise rest in these values.
IdleInclude ==
    /\ files = <<>>
    /\ resolvedContent = <<>>
    /\ iteration = 0
    /\ stack = <<>>
    /\ incStatus = "idle"

IdleTraits ==
    /\ ramlData = Absent
    /\ resolvedRaml = Absent
    /\ traitStatus = "idle"

IdleMapper ==
    /\ ramlTree = Absent
    /\ oasPaths = Absent
    /\ mapStatus = "idle"

IdleValidate ==
    /\ request = Absent
    /\ outcome = Absent
    /\ valStatus = "idle"

IdleCall ==
    /\ call = Absent
    /\ result = Absent
    /\ callStatus = "idle"

(***************************************************************************)
(*                          INCLUDE EXPANDER                               *)
(***************************************************************************)

\* Longest file content, in lines.
MaxLines == 2
\* Frames the engine's call stack holds before it raises RangeError.
MaxStack == 5
\* convertRamlToOas: let maxIterations = 10
maxIterations == 10

mainRamlFile == "a.raml"
FileNames == {"a.raml", "b.raml"}
\* Paths an !include may name: the two files, a documentation file and a
\* path that is in no FileSet.
DocPath == "docs/d.md"
MissingPath == "m.raml"
IncludePaths == FileNames \cup {DocPath, MissingPath}

\* A line of text.  kind: "text" an ordinary line; "hdr" a "#%RAML ..." header;
\* "keyinc" the form "key: !include path"; "inc" the form "!include path";
\* "listinc" a line holding "!include" that matches neither pattern
\* (e.g. "- !include path"); "key" the "key:" line the expander emits;
\* "skipped" the placeholder line emitted for a documentation include.
Line(kind, path) == [kind |-> kind, path |-> path]
SourceLines ==
    {Line("text", ""), Line("hdr", ""), Line("listinc", "")}
        \cup {Line(k, p) : k \in {"keyinc", "inc"}, p \in IncludePaths}

RECURSIVE SeqsUpTo(_, _)
SeqsUpTo(S, n) ==
    IF n = 0 THEN {<<>>}
    ELSE LET shorter == SeqsUpTo(S, n - 1)
         IN  shorter \cup {Append(s, x) : s \in {t \in shorter : Len(t) = n - 1}, x \in S}

Contents == SeqsUpTo(SourceLines, MaxLines) \ {<<>>}

\* content.includes('!include')
HasInclude(content) ==
    \E i \in 1..Len(content) : content[i].kind \in {"keyinc", "inc", "listinc"}

\* getIncludedContent: docFolderPatterns.some(p => includePath.includes(p) || currentFile.includes(p))
shouldSkipDoc(includePath, currentFile) ==
    includePath = DocPath \/ currentFile = DocPath

\* getIncludedContent: the path lookup.  Every file of the model lies in the
\* root directory, so resolvedPath = includePath and the lookup succeeds
\* exactly for the keys of files.
FileFound(includePath) == includePath \in DOMAIN files

\* getIncludedContent: drop everything up to the first "#%RAML" header line.
\* (Blank lines are not modelled.)
StripHeader(content) ==
    LET hdrs == {j \in 1..Len(content) : content[j].kind = "hdr"}
    IN  IF hdrs = {} THEN content
        ELSE LET first == CHOOSE j \in hdrs : \A k \in hdrs : j <= k
             IN  SubSeq(content, first + 1, Len(content))

\* resolveIncludes: what replaces an include line once getIncludedContent
\* returned fileContent ('' is the empty sequence).
Spliced(line, fileContent) ==
    IF fileContent = <<>>
    THEN <<Line("skipped", "")>>
    ELSE IF line.kind = "keyinc"
         THEN <<Line("key", "")>> \o fileContent
         ELSE fileContent

Frame(file, lines) == [file |-> file, lines |-> lines, i |-> 1, result |-> <<>>]

Top == stack[Len(stack)]

SetTop(f) == [stack EXCEPT ![Len(stack)] = f]

Advance(f, newLines) == [f EXCEPT !.i = f.i + 1, !.result = f.result \o newLines]

InitInclude ==
    /\ files \in [FileNames -> Contents]
    /\ resolvedContent = files[mainRamlFile]
    /\ iteration = 0
    /\ stack = <<>>
    /\ incStatus = "running"
    /\ IdleTraits /\ IdleMapper /\ IdleValidate /\ IdleCall

\* convertRamlToOas: the while loop calls resolveIncludes on resolvedContent.
StartPass ==
    /\ incStatus = "running"
    /\ stack = <<>>
    /\ HasInclude(resolvedContent) /\ iteration < maxIterations
    /\ stack' = <<Frame(mainRamlFile, resolvedContent)>>
    /\ UNCHANGED <<files, resolvedContent, iteration, incStatus>>
    /\ UNCHANGED <<traitVars, mapperVars, validateVars, callVars>>

\* convertRamlToOas: the while loop ends.
FinishPasses ==
    /\ incStatus = "running"
    /\ stack = <<>>
    /\ ~(HasInclude(resolvedContent) /\ iteration < maxIterations)
    /\ incStatus' = "returned"
    /\ UNCHANGED <<files, resolvedContent, iteration, stack>>
    /\ UNCHANGED <<traitVars, mapperVars, validateVars, callVars>>

\* resolveIncludes: a line that matches neither include pattern is kept.
KeepLine ==
    /\ incStatus = "running"
    /\ stack # <<>>
    /\ Top.i <= Len(Top.lines)
    /\ Top.lines[Top.i].kind \notin {"keyinc", "inc"}
    /\ stack' = SetTop(Advance(Top, <<Top.lines[Top.i]>>))
    /\ UNCHANGED <<files, resolvedContent, iteration, incStatus>>
    /\ UNCHANGED <<traitVars, mapperVars, validateVars, callVars>>

\* resolveIncludes + getIncludedContent: the target lies under a
\* documentation directory, '' comes back and the placeholder is emitted.
IncludeSkipped ==
    /\ incStatus = "running"
    /\ stack # <<>>
    /\ Top.i <= Len(Top.lines)
    /\ LET line == Top.lines[Top.i]
       IN  /\ line.kind \in {"keyinc", "inc"}
           /\ shouldSkipDoc(line.path, Top.file)
           /\ stack' = SetTop(Advance(Top, Spliced(line, <<>>)))
    /\ UNCHANGED <<files, resolvedContent, iteration, incStatus>>
    /\ UNCHANGED <<traitVars, mapperVars, validateVars, callVars>>

\* resolveIncludes: getIncludedContent returned null, the error is thrown
\* and unwinds every frame.
IncludeMissing ==
    /\ incStatus = "running"
    /\ stack # <<>>
    /\ Top.i <= Len(Top.lines)
    /\ LET line == Top.lines[Top.i]
       IN  /\ line.kind \in {"keyinc", "inc"}
           /\ ~shouldSkipDoc(line.path, Top.file)
           /\ ~FileFound(line.path)
    /\ incStatus' = "thrown"
    /\ stack' = <<>>
    /\ UNCHANGED <<files, resolvedContent, iteration>>
    /\ UNCHANGED <<traitVars, mapperVars, validateVars, callVars>>

\* getIncludedContent: the file is found and holds no "!include"; its text
\* (header stripped) is spliced into the including file.
IncludeLeaf ==
    /\ incStatus = "running"
    /\ stack # <<>>
    /\ Top.i <= Len(Top.lines)
    /\ LET line == Top.lines[Top.i]
       IN  /\ line.kind \in {"keyinc", "inc"}
           /\ ~shouldSkipDoc(line.path, Top.file)
           /\ FileFound(line.path)
           /\ ~HasInclude(files[line.path])
           /\ stack' = SetTop(Advance(Top, Spliced(line, StripHeader(files[line.path]))))
    /\ UNCHANGED <<files, resolvedContent, iteration, incStatus>>
    /\ UNCHANGED <<traitVars, mapperVars, validateVars, callVars>>

\* getIncludedContent: the file is found and holds "!include", so
\* resolveIncludes is called on it: one more frame.
IncludeNested ==
    /\ incStatus = "running"
    /\ stack # <<>>
    /\ Len(stack) < MaxStack
    /\ Top.i <= Len(Top.lines)
    /\ LET line == Top.lines[Top.i]
       IN  /\ line.kind \in {"keyinc", "inc"}
           /\ ~shouldSkipDoc(line.path, Top.file)
           /\ FileFound(line.path)
           /\ HasInclude(files[line.path])
           /\ stack' = Append(stack, Frame(line.path, files[line.path]))
    /\ UNCHANGED <<files, resolvedContent, iteration, incStatus>>
    /\ UNCHANGED <<traitVars, mapperVars, validateVars, callVars>>

\* The engine's call stack is exhausted: RangeError, caught by
\* convertRamlToOas' catch and rethrown.
StackOverflow ==
    /\ incStatus = "running"
    /\ Len(stack) = MaxStack
    /\ Top.i <= Len(Top.lines)
    /\ LET line == Top.lines[Top.i]
       IN  /\ line.kind \in {"keyinc", "inc"}
           /\ ~shouldSkipDoc(line.path, Top.file)
           /\ FileFound(line.path)
           /\ HasInclude(files[line.path])
    /\ incStatus' = "thrown"
    /\ stack' = <<>>
    /\ UNCHANGED <<files, resolvedContent, iteration>>
    /\ UNCHANGED <<traitVars, mapperVars, validateVars, callVars>>

\* resolveIncludes returns to getIncludedContent, which strips the header
\* and returns to the including resolveIncludes.
ReturnNested ==
    /\ incStatus = "running"
    /\ Len(stack) > 1
    /\ Top.i > Len(Top.lines)
    /\ LET caller == stack[Len(stack) - 1]
           line == caller.lines[caller.i]
           popped == SubSeq(stack, 1, Len(stack) - 1)
       IN  stack' = [popped EXCEPT ![Len(popped)] =
                        Advance(caller, Spliced(line, StripHeader(Top.result)))]
    /\ UNCHANGED <<files, resolvedContent, iteration, incStatus>>
    /\ UNCHANGED <<traitVars, mapperVars, validateVars, callVars>>

\* resolveIncludes returns to the while loop of convertRamlToOas.
ReturnPass ==
    /\ incStatus = "running"
    /\ Len(stack) = 1
    /\ Top.i > Len(Top.lines)
    /\ resolvedContent' = Top.result
    /\ iteration' = iteration + 1
    /\ stack' = <<>>
    /\ UNCHANGED <<files, incStatus>>
    /\ UNCHANGED <<traitVars, mapperVars, validateVars, callVars>>

NextInclude ==
    \/ StartPass
    \/ FinishPasses
    \/ KeepLine
    \/ IncludeSkipped
    \/ IncludeMissing
    \/ IncludeLeaf
    \/ IncludeNested
    \/ StackOverflow
    \/ ReturnNested
    \/ ReturnPass

SpecInclude == InitInclude /\ [][NextInclude]_vars

\* C1: include expansion never nests deeper than one resolveIncludes call
\* per file of the FileSet (plus the pass itself): a cycle of includes does
\* not make the expander recurse without bound.
C1_NestingBounded == Len(stack) <= Cardinality(FileNames) + 1

(***************************************************************************)
(*                           TRAIT RESOLVER                                *)
(***************************************************************************)

\* Most resources of a RAML tree.
MaxResources == 3

TraitNames == {"T1", "T2"}
\* resolveTraits: the three sections a trait merges into a method.
Sections == {"headers", "queryParameters", "responses"}
SubKeys == {"X", "Y"}
SubVals == {"v1", "v2"}

\* An optional map (a section of a trait or of a method): absent, or a map
\* from sub-keys to values.
NoMap == [present |-> FALSE, keys |-> {}, val |-> [k \in SubKeys |-> "none"]]
MapOf(ks, f) ==
    [present |-> TRUE, keys |-> ks, val |-> [k \in SubKeys |-> IF k \in ks THEN f[k] ELSE "none"]]

\* An `is` value: absent, an array of trait names, or one bare trait name.
NoIs == [kind |-> "absent", names |-> <<>>]
IsArray(names) == [kind |-> "array", names |-> names]
IsString(name) == [kind |-> "string", names |-> <<name>>]

\* Array.isArray(x.is) ? x.is : [x.is]
AsTraitList(is) == is.names

\* `if (x.is)`: an absent `is` is falsy, an array (even empty) and a
\* non-empty string are truthy.
IsTruthy(is) == is.kind # "absent"

\* { ...trait[section], ...(methodData[section] || {}) }
MergeSectionTraitWins(traitMap, methodMap) ==
    [present |-> TRUE,
     keys |-> traitMap.keys \cup methodMap.keys,
     val |-> [k \in SubKeys |->
                IF k \in traitMap.keys THEN traitMap.val[k] ELSE methodMap.val[k]]]

MergeSection(traitMap, methodMap) ==
    [present |-> TRUE,
     keys |-> traitMap.keys \cup methodMap.keys,
     val |-> [k \in SubKeys |->
                IF k \in methodMap.keys THEN methodMap.val[k] ELSE traitMap.val[k]]]

\* applyTraitsToResource: the body of `for (const traitName of traitNames)`.
MergeTrait(methodData, traits, traitName) ==
    IF traitName \notin DOMAIN traits
    THEN methodData
    ELSE LET trait == traits[traitName]
             merged(sec) == IF trait[sec].present
                            THEN MergeSection(trait[sec], methodData[sec])
                            ELSE methodData[sec]
         IN  [methodData EXCEPT
                !.headers = merged("headers"),
                !.queryParameters = merged("queryParameters"),
                !.responses = merged("responses"),
                !.description = IF trait.description # "" /\ methodData.description = ""
                                THEN trait.description
                                ELSE methodData.description]

RECURSIVE MergeTraitsLastFirst(_, _, _)
MergeTraitsLastFirst(methodData, traits, traitNames) ==
    IF traitNames = <<>> THEN methodData
    ELSE MergeTraitsLastFirst(
            MergeTrait(methodData, traits, traitNames[Len(traitNames)]),
            traits, SubSeq(traitNames, 1, Len(traitNames) - 1))

RECURSIVE MergeTraits(_, _, _)
MergeTraits(methodData, traits, traitNames) ==
    IF traitNames = <<>> THEN methodData
    ELSE MergeTraits(MergeTrait(methodData, traits, Head(traitNames)), traits, Tail(traitNames))

\* applyTraitsToResource: let traitNames = [...resourceTraits, ...methodTraits]
MethodTraitNames(methodData, resourceTraits) ==
    IF IsTruthy(methodData.is)
    THEN resourceTraits \o AsTraitList(methodData.is)
    ELSE resourceTraits

\* applyTraitsToResource: one method of a resource.  traitNames is kept
\* beside the result to state what was applied.
ApplyTraitsToMethod(methodData, traits, resourceTraits) ==
    LET traitNames == MethodTraitNames(methodData, resourceTraits)
    IN  [MergeTraits([methodData EXCEPT !.is = NoIs], traits, traitNames)
            EXCEPT !.traitNames = traitNames]

\* applyTraitsToResource: let resourceTraits = [...inheritedTraits, ...localTraits]
ResourceTraitsReplaced(resource, inheritedTraits) ==
    IF IsTruthy(resource.is)
    THEN AsTraitList(resource.is)
    ELSE inheritedTraits

ResourceTraits(resource, inheritedTraits) ==
    IF IsTruthy(resource.is)
    THEN inheritedTraits \o AsTraitList(resource.is)
    ELSE inheritedTraits

\* The nested resources of resource n (n = 0: the top-level resources).
ChildResources(tree, n) == {c \in DOMAIN tree : tree[c].parent = n}

\* applyTraitsToResource(resource, inheritedTraits): the resolved resource n
\* and, recursively, its nested resources, as pairs <<id, resource>>.
RECURSIVE applyTraitsToResource(_, _, _, _)
applyTraitsToResource(tree, traits, n, inheritedTraits) ==
    LET resource == tree[n]
        resourceTraits == ResourceTraits(resource, inheritedTraits)
        resolved == [resource EXCEPT
                        !.is = NoIs,
                        !.methods = [m \in DOMAIN resource.methods |->
                            ApplyTraitsToMethod(resource.methods[m], traits, resourceTraits)]]
    IN  {<<n, resolved>>} \cup
        UNION {applyTraitsToResource(tree, traits, c, resourceTraits) :
                  c \in ChildResources(tree, n)}

\* resolveTraits(ramlData): apply the traits to every top-level resource.
resolveTraits(data) ==
    LET pairs == UNION {applyTraitsToResource(data.resources, data.traits, n, <<>>) :
                          n \in ChildResources(data.resources, 0)}
    IN  [data EXCEPT !.resources =
            [n \in DOMAIN data.resources |-> (CHOOSE p \in pairs : p[1] = n)[2]]]

\* ---- inputs ----
Method(is, headers, queryParameters, responses, description) ==
    [is |-> is, headers |-> headers, queryParameters |-> queryParameters,
     responses |-> responses, description |-> description, traitNames |-> <<>>]

Trait(headers, queryParameters, responses, description) ==
    [headers |-> headers, queryParameters |-> queryParameters,
     responses |-> responses, description |-> description]

Resource(parent, is, methods) == [parent |-> parent, is |-> is, methods |-> methods]

\* A fragment (trait or method) that fills one section with map m.
SectionMaps(sec, m) == [s \in Sections |-> IF s = sec THEN m ELSE NoMap]

OptionalMaps ==
    {NoMap} \cup {MapOf(ks, f) : ks \in SUBSET SubKeys, f \in [SubKeys -> SubVals]}

ResourceIsValues ==
    {NoIs, IsArray(<<"T1">>), IsArray(<<"T2">>), IsArray(<<"T2", "T1">>), IsString("T1")}
MethodIsValues == {NoIs, IsArray(<<"T1">>), IsArray(<<"T1", "T2">>)}

\* Trees of resources: every resource has a get method; the traits are fixed.
FixedTraits ==
    [t \in TraitNames |->
        Trait(MapOf({"X"}, [k \in SubKeys |-> IF t = "T1" THEN "v1" ELSE "v2"]),
              NoMap, NoMap, "")]

TreeInputs ==
    {[traits |-> FixedTraits,
      resources |-> [n \in 1..MaxResources |->
          Resource(parent[n], is[n],
                   [m \in {"get"} |-> Method(mis[n], NoMap, NoMap, NoMap, "")])]] :
        parent \in {p \in [1..MaxResources -> 0..(MaxResources - 1)] :
                        \A n \in 1..MaxResources : p[n] < n},
        is \in [1..MaxResources -> ResourceIsValues],
        mis \in [1..MaxResources -> {NoIs, IsArray(<<"T2">>)}]}

\* One resource with one method: the traits, the method and their maps vary.
MergeInputs ==
    {[traits |-> [t \in TraitNames |->
                    LET m == SectionMaps(sec, IF t = "T1" THEN m1 ELSE m2)
                    IN  Trait(m["headers"], m["queryParameters"], m["responses"],
                              IF t = "T1" THEN "d1" ELSE "")],
      resources |-> [n \in {1} |->
          Resource(0, ris,
                   [m \in {"post"} |->
                      LET mm == SectionMaps(sec, m3)
                      IN  Method(mis, mm["headers"], mm["queryParameters"],
                                 mm["responses"], desc)])]] :
        sec \in Sections,
        m1 \in {m \in OptionalMaps : m.val["Y"] # "v2"},
        m2 \in {m \in OptionalMaps : m.val["Y"] # "v2"},
        m3 \in {m \in OptionalMaps : m.val["Y"] # "v2"},
        ris \in {NoIs, IsArray(<<"T1">>), IsArray(<<"T2">>)},
        mis \in MethodIsValues \cup {IsArray(<<"T2">>), IsArray(<<"T2", "T1">>)},
        desc \in {"", "dm"}}

InitTraits ==
    /\ ramlData \in TreeInputs \cup MergeInputs
    /\ resolvedRaml = Absent
    /\ traitStatus = "input"
    /\ IdleInclude /\ IdleMapper /\ IdleValidate /\ IdleCall

\* convertRamlToOas: ramlData = resolveTraits(ramlData, libraries)
ResolveTraits ==
    /\ traitStatus = "input"
    /\ resolvedRaml' = resolveTraits(ramlData)
    /\ traitStatus' = "resolved"
    /\ UNCHANGED ramlData
    /\ UNCHANGED <<includeVars, mapperVars, validateVars, callVars>>

NextTraits == ResolveTraits

SpecTraits == InitTraits /\ [][NextTraits]_vars

\* ---- claims about the trait resolver ----

\* The methods of the tree: pairs <<resource, method name>>.
MethodsOf(data) ==
    {nm \in (DOMAIN data.resources) \X {"get", "post"} :
        nm[2] \in DOMAIN data.resources[nm[1]].methods}

InMethod(data, nm) == data.resources[nm[1]].methods[nm[2]]

\* The positions of traitNames whose trait contributes sub-key k to section sec.
Contributors(data, traitNames, sec, k) ==
    {i \in 1..Len(traitNames) :
        /\ traitNames[i] \in DOMAIN data.traits
        /\ data.traits[traitNames[i]][sec].present
        /\ k \in data.traits[traitNames[i]][sec].keys}

\* C2: a sub-key the method itself declares under headers, queryParameters
\* or responses keeps the method's value after resolveTraits, whatever the
\* inherited and method-level traits define.
C2_MethodValueWins ==
    traitStatus = "resolved" =>
        \A nm \in MethodsOf(ramlData) : \A sec \in Sections :
            \A k \in InMethod(ramlData, nm)[sec].keys :
                /\ InMethod(resolvedRaml, nm)[sec].present
                /\ k \in InMethod(resolvedRaml, nm)[sec].keys
                /\ InMethod(resolvedRaml, nm)[sec].val[k] = InMethod(ramlData, nm)[sec].val[k]

\* A resolved method that declares X, with an inherited trait and a
\* method-level trait that both define X with other values.
C2_Witness ==
    /\ traitStatus = "resolved"
    /\ \E nm \in MethodsOf(ramlData) : \E sec \in Sections :
        LET md == InMethod(ramlData, nm)
            res == ramlData.resources[nm[1]]
        IN  /\ "X" \in md[sec].keys
            /\ res.is.names # <<>> /\ md.is.names # <<>>
            /\ \A t \in {res.is.names[1], md.is.names[1]} :
                  /\ "X" \in ramlData.traits[t][sec].keys
                  /\ ramlData.traits[t][sec].val["X"] # md[sec].val["X"]
            /\ res.is.names[1] # md.is.names[1]

\* C3 (as claimed): a sub-key contributed by several traits and not declared
\* by the method ends with the value of the LAST contributing trait.
C3_LaterTraitWins ==
    traitStatus = "resolved" =>
        \A nm \in MethodsOf(ramlData) : \A sec \in Sections : \A k \in SubKeys :
            LET names == InMethod(resolvedRaml, nm).traitNames
                idx == Contributors(ramlData, names, sec, k)
            IN  (k \notin InMethod(ramlData, nm)[sec].keys /\ idx # {}) =>
                  LET last == CHOOSE i \in idx : \A j \in idx : j <= i
                  IN  InMethod(resolvedRaml, nm)[sec].val[k]
                        = ramlData.traits[names[last]][sec].val[k]

\* C3 (amended): a sub-key contributed by several traits and not declared by
\* the method ends with the value of the FIRST contributing trait in
\* application order; later traits do not override it.
C3_EarlierTraitWins ==
    traitStatus = "resolved" =>
        \A nm \in MethodsOf(ramlData) : \A sec \in Sections : \A k \in SubKeys :
            LET names == InMethod(resolvedRaml, nm).traitNames
                idx == Contributors(ramlData, names, sec, k)
            IN  (k \notin InMethod(ramlData, nm)[sec].keys /\ idx # {}) =>
                  LET first == CHOOSE i \in idx : \A j \in idx : i <= j
                  IN  /\ k \in InMethod(resolvedRaml, nm)[sec].keys
                      /\ InMethod(resolvedRaml, nm)[sec].val[k]
                           = ramlData.traits[names[first]][sec].val[k]

\* A resolved method that does not declare X while two applied traits
\* contribute X with different values.
C3_Witness ==
    /\ traitStatus = "resolved"
    /\ \E nm \in MethodsOf(ramlData) : \E sec \in Sections :
        LET names == InMethod(resolvedRaml, nm).traitNames
            idx == Contributors(ramlData, names, sec, "X")
        IN  /\ "X" \notin InMethod(ramlData, nm)[sec].keys
            /\ \E i \in idx : \E j \in idx :
                  /\ i < j
                  /\ ramlData.traits[names[i]][sec].val["X"]
                       # ramlData.traits[names[j]][sec].val["X"]

\* The resources from the outermost ancestor of n down to n itself.
RECURSIVE ResourceChain(_, _)
ResourceChain(tree, n) ==
    IF n = 0 THEN <<>> ELSE Append(ResourceChain(tree, tree[n].parent), n)

RECURSIVE ConcatIs(_, _)
ConcatIs(tree, chain) ==
    IF chain = <<>> THEN <<>>
    ELSE tree[Head(chain)].is.names \o ConcatIs(tree, Tail(chain))

\* C4: the trait names applied to a method are the `is` lists of its
\* ancestor resources from outermost to innermost, then of its own
\* resource, then of the method itself.
C4_TraitsAccumulate ==
    traitStatus = "resolved" =>
        \A nm \in MethodsOf(ramlData) :
            InMethod(resolvedRaml, nm).traitNames
                = ConcatIs(ramlData.resources, ResourceChain(ramlData.resources, nm[1]))
                    \o InMethod(ramlData, nm).is.names

\* A resolved method two levels down whose grandparent, parent, own resource
\* and own `is` all name traits, the grandparent's differing from the parent's.
C4_Witness ==
    /\ traitStatus = "resolved"
    /\ \E nm \in MethodsOf(ramlData) :
        LET tree == ramlData.resources
            n == nm[1]
        IN  /\ tree[n].parent # 0
            /\ tree[tree[n].parent].parent # 0
            /\ tree[n].is.names # <<>>
            /\ tree[tree[n].parent].is.names # <<>>
            /\ tree[tree[tree[n].parent].parent].is.names # <<>>
            /\ tree[tree[tree[n].parent].parent].is.names # tree[tree[n].parent].is.names
            /\ InMethod(ramlData, nm).is.names # <<>>
            /\ Len(InMethod(resolvedRaml, nm).traitNames) >= 4

(***************************************************************************)
(*                         STRUCTURAL MAPPER                               *)
(* Strings are sequences of one-character strings, so that split, match    *)
(* and concatenation are computed as the code computes them.               *)
(***************************************************************************)

\* Most resources of a tree handed to the mapper.
MaxMapResources == 2

RECURSIVE Concat(_)
Concat(seqs) == IF seqs = <<>> THEN <<>> ELSE Head(seqs) \o Concat(Tail(seqs))

\* s.split(sep) for a one-character separator.
RECURSIVE SplitFrom(_, _, _, _)
SplitFrom(s, sep, i, part) ==
    IF i > Len(s) THEN <<part>>
    ELSE IF s[i] = sep THEN <<part>> \o SplitFrom(s, sep, i + 1, <<>>)
    ELSE SplitFrom(s, sep, i + 1, Append(part, s[i]))

Split(s, sep) == SplitFrom(s, sep, 1, <<>>)

\* c.toUpperCase() for one character.
ToUpper(c) ==
    CASE c = "a" -> "A"
      [] c = "b" -> "B"
      [] c = "c" -> "C"
      [] OTHER -> c

\* part.charAt(0).toUpperCase() + part.slice(1)
TitleCase(part) == IF part = <<>> THEN <<>> ELSE <<ToUpper(part[1])>> \o Tail(part)

\* The captures of /\{([^}]+)\}/g in s, left to right.
RECURSIVE BraceMatches(_, _)
BraceMatches(s, i) ==
    IF i > Len(s) THEN <<>>
    ELSE IF s[i] # "{" THEN BraceMatches(s, i + 1)
    ELSE LET closes == {j \in (i + 1)..Len(s) : s[j] = "}"}
         IN  IF closes = {} THEN <<>>
             ELSE LET j == CHOOSE c \in closes : \A d \in closes : c <= d
                  IN  IF j = i + 1
                      THEN BraceMatches(s, i + 1)
                      ELSE <<SubSeq(s, i + 1, j - 1)>> \o BraceMatches(s, j + 1)

\* ---- strings ----
CharAt(s, i) == SubSeq(s, i, i)

\* s.substring(i) with i counted from 1
StrFrom(s, i) == SubSeq(s, i, Len(s))

\* s.includes(c) for a one-character c
StrIncludes(s, c) == \E i \in 1..Len(s) : CharAt(s, i) = c

\* s.startsWith(prefix)
StartsWith(s, prefix) == Len(s) >= Len(prefix) /\ SubSeq(s, 1, Len(prefix)) = prefix

\* s.split(sep) for a one-character separator
RECURSIVE StrSplitFrom(_, _, _, _)
StrSplitFrom(s, sep, i, part) ==
    IF i > Len(s) THEN <<part>>
    ELSE IF CharAt(s, i) = sep THEN <<part>> \o StrSplitFrom(s, sep, i + 1, "")
    ELSE StrSplitFrom(s, sep, i + 1, part \o CharAt(s, i))

StrSplit(s, sep) == StrSplitFrom(s, sep, 1, "")

UpperLetters == "ABCDEFGHIJKLMNOPQRSTUVWXYZ"
LowerLetters == "abcdefghijklmnopqrstuvwxyz"
DecimalDigits == "0123456789"
HexDigits == "0123456789abcdefABCDEF"

\* The position of the one-character c in alphabet, 0 when it is not there.
IndexIn(alphabet, c) ==
    IF StrIncludes(alphabet, c)
    THEN CHOOSE i \in 1..Len(alphabet) : CharAt(alphabet, i) = c
    ELSE 0

MapChar(c, from, to) == IF StrIncludes(from, c) THEN CharAt(to, IndexIn(from, c)) ELSE c

\* s.toLowerCase(), s.toUpperCase()
RECURSIVE toLowerCase(_)
toLowerCase(s) ==
    IF s = "" THEN "" ELSE MapChar(Head(s), UpperLetters, LowerLetters) \o toLowerCase(Tail(s))

RECURSIVE toUpperCase(_)
toUpperCase(s) ==
    IF s = "" THEN "" ELSE MapChar(Head(s), LowerLetters, UpperLetters) \o toUpperCase(Tail(s))

\* s.trim(), for the space character
RECURSIVE TrimStart(_)
TrimStart(s) == IF s # "" /\ Head(s) = " " THEN TrimStart(Tail(s)) ELSE s

RECURSIVE TrimEnd(_)
TrimEnd(s) ==
    IF s # "" /\ CharAt(s, Len(s)) = " " THEN TrimEnd(SubSeq(s, 1, Len(s) - 1)) ELSE s

Trim(s) == TrimEnd(TrimStart(s))

\* mapRamlTypeToOasType(ramlType): typeMap[ramlType.toLowerCase()] || 'string',
\* for a name that is no member every object inherits. The date and file
\* types are mapped to 'string', as every name typeMap does not hold.
mapRamlTypeToOasType(ramlType) ==
    IF toLowerCase(ramlType) \in {"string", "number", "integer", "boolean", "array", "object"}
    THEN toLowerCase(ramlType)
    ELSE "string"

\* convertParamType(param).type: mapRamlTypeToOasType(param.type || 'string')
convertParamType(param) ==
    mapRamlTypeToOasType(IF param.type = "" THEN "string" ELSE param.type)

\* An insertion-ordered object: a sequence of [name, decl] entries with
\* distinct names.
HasKey(obj, name) == \E i \in 1..Len(obj) : obj[i].name = name

\* obj[name] = decl: an existing key keeps its place, a new key is appended.
SetKey(obj, name, decl) ==
    IF HasKey(obj, name)
    THEN [i \in 1..Len(obj) |-> IF obj[i].name = name
                                THEN [name |-> name, decl |-> decl] ELSE obj[i]]
    ELSE Append(obj, [name |-> name, decl |-> decl])

\* Object.assign(target, source)
RECURSIVE ObjectAssign(_, _)
ObjectAssign(target, source) ==
    IF source = <<>> THEN target
    ELSE ObjectAssign(SetKey(target, Head(source).name, Head(source).decl), Tail(source))

\* convertResource: pathParams extracted from fullPath, every one
\* {type: 'string', required: true}.
RECURSIVE ExtractedPathParams(_)
ExtractedPathParams(names) ==
    IF names = <<>> THEN <<>>
    ELSE SetKey(ExtractedPathParams(SubSeq(names, 1, Len(names) - 1)),
                names[Len(names)], [type |-> "string", required |-> TRUE])

\* convertResource: const pathParams, after Object.assign(pathParams, resource.uriParameters)
PathParamsOfOwnKey(fullPath, resource) ==
    ObjectAssign(ExtractedPathParams(BraceMatches(resource.key, 1)), resource.uriParameters)

PathParams(fullPath, resource) ==
    ObjectAssign(ExtractedPathParams(BraceMatches(fullPath, 1)), resource.uriParameters)

\* convertMethod: the operationId synthesized from methodName and resourcePath.
OperationId(methodName, resourcePath) ==
    LET parts == Split(resourcePath, "/")
        kept == SelectSeq(parts, LAMBDA part : part # <<>> /\ part[1] # "{")
        pathParts == [i \in 1..Len(kept) |-> TitleCase(kept[i])]
        names == BraceMatches(resourcePath, 1)
        paramParts == [i \in 1..Len(names) |-> <<"B", "y">> \o TitleCase(names[i])]
    IN  methodName \o Concat(pathParts) \o Concat(paramParts)

Parameter(name, in, required, type) ==
    [name |-> name, in |-> in, required |-> required, type |-> type]

\* convertMethod: "Add path parameters first".
PathParameters(pathParams) ==
    [i \in 1..Len(pathParams) |->
        Parameter(pathParams[i].name, "path", TRUE, convertParamType(pathParams[i].decl))]

\* convertMethod: query parameters and headers.
DeclaredParameters(decls, in) ==
    [i \in 1..Len(decls) |->
        Parameter(decls[i].name, in, decls[i].decl.required, convertParamType(decls[i].decl))]

\* convertMethod: "Convert URI parameters from method", skipping a name that
\* is already a path parameter of the operation.
RECURSIVE AddMethodUriParameters(_, _)
AddMethodUriParameters(parameters, decls) ==
    IF decls = <<>> THEN parameters
    ELSE LET d == Head(decls)
             alreadyAdded == \E i \in 1..Len(parameters) :
                                parameters[i].name = d.name /\ parameters[i].in = "path"
         IN  AddMethodUriParameters(
                IF alreadyAdded THEN parameters
                ELSE Append(parameters, Parameter(d.name, "path", TRUE, convertParamType(d.decl))),
                Tail(decls))

\* An operation whose method-declared URI parameters are all appended, and
\* after the headers.
convertMethodUnskipped(methodData, methodName, resourcePath, pathParams) ==
    [operationId |-> OperationId(methodName, resourcePath),
     parameters |->
        PathParameters(pathParams) \o DeclaredParameters(methodData.queryParameters, "query")
        \o DeclaredParameters(methodData.headers, "header")
        \o [i \in 1..Len(methodData.uriParameters) |->
               Parameter(methodData.uriParameters[i].name, "path", TRUE,
                         convertParamType(methodData.uriParameters[i].decl))]]

\* convertMethod(methodData, methodName, resourcePath, traits, pathParams)
convertMethod(methodData, methodName, resourcePath, pathParams) ==
    [operationId |-> OperationId(methodName, resourcePath),
     parameters |->
        AddMethodUriParameters(
            PathParameters(pathParams) \o DeclaredParameters(methodData.queryParameters, "query"),
            methodData.uriParameters)
        \o DeclaredParameters(methodData.headers, "header")]

\* convertResource: const fullPath = parentPath + path, down from the root.
RECURSIVE FullPath(_, _)
FullPath(tree, n) ==
    IF n = 0 THEN <<>> ELSE FullPath(tree, tree[n].parent) \o tree[n].key

\* The order in which convertResource visits the resources: a resource, then
\* its nested resources in key order, depth first.
RECURSIVE VisitOrder(_, _, _)
VisitOrder(tree, n, pending) ==
    \* pending: the identifiers above which siblings are still to be visited
    LET kids == {c \in DOMAIN tree : tree[c].parent = n /\ c > pending}
    IN  IF kids = {} THEN <<>>
        ELSE LET c == CHOOSE k \in kids : \A j \in kids : k <= j
             IN  <<c>> \o VisitOrder(tree, c, 0) \o VisitOrder(tree, n, c)

\* convertResource(path, resource, paths, parentPath): the methods of one
\* resource written into paths[fullPath].
convertResource(tree, n, paths) ==
    LET resource == tree[n]
        fullPath == FullPath(tree, n)
        pathParams == PathParams(fullPath, resource)
        before == IF fullPath \in DOMAIN paths THEN paths[fullPath] ELSE <<>>
        methods == DOMAIN resource.methods
        item == [m \in (DOMAIN before) \cup methods |->
                    IF m \in methods
                    THEN convertMethod(resource.methods[m], m, fullPath, pathParams)
                    ELSE before[m]]
    IN  [p \in (DOMAIN paths) \cup {fullPath} |-> IF p = fullPath THEN item ELSE paths[p]]

RECURSIVE convertResources(_, _, _)
convertResources(tree, order, paths) ==
    IF order = <<>> THEN paths
    ELSE convertResources(tree, Tail(order), convertResource(tree, Head(order), paths))

\* convertRamlToOasSpec: oas.paths
convertRamlToOasSpec(tree) == convertResources(tree, VisitOrder(tree, 0, 0), <<>>)

\* ---- inputs ----
GET == <<"g", "e", "t">>
POST == <<"p", "o", "s", "t">>

ResourceKeys ==
    {<<"/", "a">>, <<"/", "A">>, <<"/", "{", "a", "}">>, <<"/", "{", "b", "}">>,
     <<"/", "a", "/", "{", "b", "}">>}

Decl(type, required) == [type |-> type, required |-> required]
Entry(name, decl) == [name |-> name, decl |-> decl]

UriParameterMaps ==
    {<<>>,
     <<Entry(<<"a">>, Decl("integer", TRUE))>>,
     <<Entry(<<"c">>, Decl("", TRUE)), Entry(<<"b">>, Decl("boolean", FALSE))>>}

MapMethod(queryParameters, uriParameters, headers) ==
    [queryParameters |-> queryParameters, uriParameters |-> uriParameters, headers |-> headers]

MethodMaps ==
    {[m \in {GET} |-> MapMethod(<<>>, <<>>, <<>>)],
     [m \in {GET, POST} |->
        IF m = GET
        THEN MapMethod(<<Entry(<<"a">>, Decl("number", FALSE))>>,
                       <<Entry(<<"a">>, Decl("integer", TRUE)),
                         Entry(<<"d">>, Decl("integer", TRUE))>>,
                       <<Entry(<<"h">>, Decl("string", TRUE))>>)
        ELSE MapMethod(<<>>, <<>>, <<>>)]}

MapResource(parent, key, uriParameters, methods) ==
    [parent |-> parent, key |-> key, uriParameters |-> uriParameters, methods |-> methods]

MapInputs ==
    {t \in [1..MaxMapResources ->
              {MapResource(p, k, u, ms) :
                  p \in 0..(MaxMapResources - 1), k \in ResourceKeys,
                  u \in UriParameterMaps, ms \in MethodMaps}] :
        /\ \A n \in DOMAIN t : t[n].parent < n
        \* the keys of one object are distinct
        /\ \A n, k \in DOMAIN t : (n # k /\ t[n].parent = t[k].parent) => t[n].key # t[k].key}

InitMapper ==
    /\ ramlTree \in MapInputs
    /\ oasPaths = Absent
    /\ mapStatus = "input"
    /\ IdleInclude /\ IdleTraits /\ IdleValidate /\ IdleCall

\* convertRamlToOas: const oasSpec = convertRamlToOasSpec(ramlData)
ConvertRamlToOasSpec ==
    /\ mapStatus = "input"
    /\ oasPaths' = convertRamlToOasSpec(ramlTree)
    /\ mapStatus' = "mapped"
    /\ UNCHANGED ramlTree
    /\ UNCHANGED <<includeVars, traitVars, validateVars, callVars>>

NextMapper == ConvertRamlToOasSpec

SpecMapper == InitMapper /\ [][NextMapper]_vars

\* ---- claims about the structural mapper ----

\* The operations of the compiled document: pairs <<full path, method>>.
Operations ==
    {pm \in (DOMAIN oasPaths) \X {GET, POST} : pm[2] \in DOMAIN oasPaths[pm[1]]}

\* C5: two operations of one compiled document whose method or full path
\* differ have different operationIds.
C5_OperationIdInjective ==
    mapStatus = "mapped" =>
        \A o1 \in Operations : \A o2 \in Operations :
            o1 # o2 => oasPaths[o1[1]][o1[2]].operationId # oasPaths[o2[1]][o2[2]].operationId

\* The resource whose operation stays at <<fullPath, m>>: of the resources
\* with that full path and method, the one convertResource visits last.
Emitter(fullPath, m) ==
    LET order == VisitOrder(ramlTree, 0, 0)
        writers == {i \in 1..Len(order) :
                       /\ FullPath(ramlTree, order[i]) = fullPath
                       /\ m \in DOMAIN ramlTree[order[i]].methods}
    IN  order[CHOOSE i \in writers : \A j \in writers : j <= i]

\* C6: every {name} of a resource's full path, segments of ancestor
\* resources included, is exactly one in=path parameter of each operation
\* of the resource, required, and of type string unless the resource's own
\* uriParameters declares the name.
C6_PathParameters ==
    mapStatus = "mapped" =>
        \A o \in Operations :
            LET params == oasPaths[o[1]][o[2]].parameters
                names == BraceMatches(o[1], 1)
            IN  \A i \in 1..Len(names) :
                  LET hits == {j \in 1..Len(params) :
                                  params[j].name = names[i] /\ params[j].in = "path"}
                  IN  /\ Cardinality(hits) = 1
                      /\ \A j \in hits :
                            /\ params[j].required
                            /\ ~HasKey(ramlTree[Emitter(o[1], o[2])].uriParameters, names[i])
                                 => params[j].type = "string"

\* A mapped nested resource whose path takes {a} from its parent and {b}
\* from its own key, the parent declaring a as integer and the method
\* declaring uriParameters of its own.
C6_Witness ==
    /\ mapStatus = "mapped"
    /\ \E n \in DOMAIN ramlTree :
        /\ ramlTree[n].parent # 0
        /\ ramlTree[ramlTree[n].parent].key = <<"/", "{", "a", "}">>
        /\ ramlTree[n].key = <<"/", "{", "b", "}">>
        /\ HasKey(ramlTree[ramlTree[n].parent].uriParameters, <<"a">>)
        /\ ramlTree[n].uriParameters = <<>>
        /\ POST \in DOMAIN ramlTree[n].methods
        /\ Len(oasPaths[FullPath(ramlTree, n)][GET].parameters) = 5

(***************************************************************************)
(*                              VALIDATOR                                  *)
(* validatePayload, validateParameters, validateAgainstSchema, resolveRef. *)
(* JavaScript strings are strings, taken apart one character at a time;    *)
(* a number is a decimal n / 10^e; an object is the sequence of its own    *)
(* properties in insertion order.                                          *)
(***************************************************************************)

\* validateAgainstSchema: if (depth > 100)
MaxValidationDepth == 100

\* An optional field: absent, or holding x.
None == <<>>
Some(x) == <<x>>

\* ---- decodeURIComponent ----
IsHex(c) == StrIncludes(HexDigits, c)

HexValue(c) == LET i == IndexIn(HexDigits, c) IN IF i <= 16 THEN i - 1 ELSE i - 7

\* The character with code point cp: itself for a space, a letter or a
\* digit, and a stand-in naming the code point for any other.
FromCodePoint(cp) ==
    IF cp = 32 THEN " "
    ELSE IF cp >= 48 /\ cp <= 57 THEN CharAt(DecimalDigits, cp - 47)
    ELSE IF cp >= 65 /\ cp <= 90 THEN CharAt(UpperLetters, cp - 64)
    ELSE IF cp >= 97 /\ cp <= 122 THEN CharAt(LowerLetters, cp - 96)
    ELSE "<U+" \o ToString(cp) \o ">"

\* Is there a well-formed %XX escape at position i of s?
EscapeAt(s, i) ==
    /\ i + 2 <= Len(s)
    /\ CharAt(s, i) = "%"
    /\ IsHex(CharAt(s, i + 1))
    /\ IsHex(CharAt(s, i + 2))

ByteAt(s, i) == 16 * HexValue(CharAt(s, i + 1)) + HexValue(CharAt(s, i + 2))

\* The number of continuation bytes a UTF-8 lead byte announces, -1 for a
\* byte that cannot lead.
Continuations(b) ==
    IF b < 128 THEN 0
    ELSE IF b >= 194 /\ b <= 223 THEN 1
    ELSE IF b >= 224 /\ b <= 239 THEN 2
    ELSE IF b >= 240 /\ b <= 244 THEN 3
    ELSE -1

\* The continuation bytes at i, i+3, ...: all escapes in 0x80..0xBF?
ContinuationsOk(s, i, n) ==
    \A k \in 0..(n - 1) :
        EscapeAt(s, i + 3 * k) /\ ByteAt(s, i + 3 * k) >= 128 /\ ByteAt(s, i + 3 * k) <= 191

RECURSIVE CodePoint(_, _, _, _)
CodePoint(s, i, n, acc) ==
    IF n = 0 THEN acc ELSE CodePoint(s, i + 3, n - 1, acc * 64 + (ByteAt(s, i) - 128))

LeadBits(b, n) == IF n = 0 THEN b ELSE IF n = 1 THEN b - 192 ELSE IF n = 2 THEN b - 224 ELSE b - 240

MinCodePoint(n) == IF n = 0 THEN 0 ELSE IF n = 1 THEN 128 ELSE IF n = 2 THEN 2048 ELSE 65536

\* decodeURIComponent(s): [threw |-> TRUE] for a URIError, else the decoded
\* string.
RECURSIVE DecodeFrom(_, _, _)
DecodeFrom(s, i, out) ==
    IF i > Len(s) THEN [threw |-> FALSE, s |-> out]
    ELSE IF CharAt(s, i) # "%" THEN DecodeFrom(s, i + 1, out \o CharAt(s, i))
    ELSE IF ~EscapeAt(s, i) THEN [threw |-> TRUE, s |-> ""]
    ELSE LET b == ByteAt(s, i)
             n == Continuations(b)
         IN  IF n < 0 \/ ~ContinuationsOk(s, i + 3, n) THEN [threw |-> TRUE, s |-> ""]
             ELSE LET cp == CodePoint(s, i + 3, n, LeadBits(b, n))
                  IN  IF cp < MinCodePoint(n) \/ (cp >= 55296 /\ cp <= 57343) \/ cp > 1114111
                      THEN [threw |-> TRUE, s |-> ""]
                      ELSE DecodeFrom(s, i + 3 * (n + 1), out \o FromCodePoint(cp))

decodeURIComponent(s) == DecodeFrom(s, 1, "")

\* ---- numbers ----
\* The decimal n / 10^e, with no trailing zero in the fraction.
RECURSIVE Decimal(_, _)
Decimal(n, e) ==
    IF e > 0 /\ n % 10 = 0 THEN Decimal(n \div 10, e - 1) ELSE [n |-> n, e |-> e]

RECURSIVE Pow10(_)
Pow10(e) == IF e = 0 THEN 1 ELSE 10 * Pow10(e - 1)

\* a < b
LessThan(a, b) == a.n * Pow10(b.e) < b.n * Pow10(a.e)

AllDigits(s) == \A i \in 1..Len(s) : StrIncludes(DecimalDigits, CharAt(s, i))

RECURSIVE DigitsValue(_, _)
DigitsValue(s, acc) ==
    IF s = "" THEN acc
    ELSE DigitsValue(Tail(s), 10 * acc + (IndexIn(DecimalDigits, Head(s)) - 1))

\* Number(s) for a string of digits, sign, point and spaces: [nan |-> TRUE]
\* for NaN, else the decimal. The empty and the blank string give 0.
\* Exponents, radix prefixes and Infinity are not read.
ToNumber(s) ==
    LET t == Trim(s)
        signed == t # "" /\ Head(t) \in {"+", "-"}
        u == IF signed THEN Tail(t) ELSE t
        parts == StrSplit(u, ".")
        int == parts[1]
        frac == IF Len(parts) >= 2 THEN parts[2] ELSE ""
        wellFormed == /\ Len(parts) <= 2
                      /\ AllDigits(int) /\ AllDigits(frac)
                      /\ int \o frac # ""
        magnitude == DigitsValue(int \o frac, 0)
    IN  IF t = "" THEN [nan |-> FALSE, num |-> Decimal(0, 0)]
        ELSE IF ~wellFormed THEN [nan |-> TRUE, num |-> Decimal(0, 0)]
        ELSE [nan |-> FALSE,
              num |-> Decimal(IF signed /\ Head(t) = "-" THEN 0 - magnitude ELSE magnitude,
                              Len(frac))]

\* ---- JSON values ----
Null == [t |-> "null"]
Undefined == [t |-> "undefined"]
\* What obj[prop] yields for a member inherited from Object.prototype.
Function == [t |-> "function"]
Bool(b) == [t |-> "boolean", b |-> b]
Num(n, e) == [t |-> "number", num |-> Decimal(n, e)]
String(s) == [t |-> "string", s |-> s]
Array(items) == [t |-> "array", items |-> items]
\* entries: the own properties in insertion order, each [k |-> key, v |-> value]
Object(entries) == [t |-> "object", entries |-> entries]
Prop(k, v) == [k |-> k, v |-> v]

\* typeof value
TypeOf(value) ==
    IF value.t \in {"null", "array", "object"} THEN "object" ELSE value.t

\* Array.isArray(value) ? 'array' : typeof value
ActualType(value) == IF value.t = "array" THEN "array" ELSE TypeOf(value)

\* Number.isInteger(value)
NumberIsInteger(value) == value.num.e = 0

\* !!value
Truthy(value) ==
    CASE value.t \in {"null", "undefined"} -> FALSE
      [] value.t = "boolean" -> value.b
      [] value.t = "number" -> value.num.n # 0
      [] value.t = "string" -> value.s # ""
      [] OTHER -> TRUE

\* The members every plain object inherits from Object.prototype; the `in`
\* operator and a property read find them as they find own properties.
ObjectPrototypeKeys ==
    {"constructor", "toString", "valueOf", "hasOwnProperty", "isPrototypeOf",
     "propertyIsEnumerable", "toLocaleString", "__proto__"}

\* Object.keys(obj), as a set
OwnKeys(entries) == {entries[i].k : i \in 1..Len(entries)}

\* prop in obj
In(prop, entries) == prop \in OwnKeys(entries) \/ prop \in ObjectPrototypeKeys

\* obj[prop]
Get(entries, prop) ==
    IF prop \in OwnKeys(entries)
    THEN entries[CHOOSE i \in 1..Len(entries) : entries[i].k = prop].v
    ELSE IF prop \in ObjectPrototypeKeys THEN Function ELSE Undefined

\* obj[prop] = v for a primitive v: an existing key keeps its place, a new
\* key is appended, and __proto__ takes no primitive.
Put(entries, prop, v) ==
    IF prop = "__proto__" THEN entries
    ELSE IF prop \in OwnKeys(entries)
    THEN [i \in 1..Len(entries) |-> IF entries[i].k = prop THEN Prop(prop, v) ELSE entries[i]]
    ELSE Append(entries, Prop(prop, v))

\* { ...target, ...source } and Object.assign(target, source): the own
\* properties of source are defined on target.
RECURSIVE Assign(_, _)
Assign(target, source) ==
    IF source = <<>> THEN target
    ELSE Assign(IF Head(source).k \in OwnKeys(target)
                THEN [i \in 1..Len(target) |->
                         IF target[i].k = Head(source).k THEN Head(source) ELSE target[i]]
                ELSE Append(target, Head(source)),
                Tail(source))

\* The own enumerable properties of a value that is an object or an array.
EntriesOf(value) ==
    IF value.t = "object" THEN value.entries
    ELSE IF value.t = "array"
    THEN [i \in 1..Len(value.items) |-> Prop(ToString(i - 1), value.items[i])]
    ELSE <<>>

\* ---- schema nodes ----
\* type "" is an absent type; additionalProperties is "undefined", "true" or
\* "false"; pattern holds the set of strings its regular expression matches.
\* exotic is "" for a node of the document, "inherited" for a member of
\* Object.prototype that a lookup landed on, and "null" for the null or
\* undefined a file without content parses to.
EmptySchema ==
    [exotic |-> "", ref |-> None, type |-> "", properties |-> None, required |-> None,
     additionalProperties |-> "undefined", items |-> None,
     minItems |-> None, maxItems |-> None,
     pattern |-> None, minLength |-> None, maxLength |-> None, enum |-> None,
     minimum |-> None, maximum |-> None]

\* ---- the errors array, and whether an exception ended the call ----
\* listed: what the message enumerates (the available paths or methods).
ListingError(field, kind, listed) == [field |-> field, kind |-> kind, listed |-> listed]
FieldError(field, kind) == ListingError(field, kind, <<>>)
NoErrors == [errors |-> <<>>, threw |-> FALSE]
Push(st, field, kind) == [st EXCEPT !.errors = Append(@, FieldError(field, kind))]
Throw(st) == [st EXCEPT !.threw = TRUE]

\* ---- resolveRef ----
\* oasObj, files and mainFile travel together: the record that stands for
\* oasObj also carries the FileSet's other files (parsed) and the name of the
\* main file.
WithFiles(document, otherFiles, mainFile) ==
    [paths |-> document.paths, components |-> document.components,
     files |-> otherFiles, mainFile |-> mainFile]

\* What a file of the FileSet holds: text the codec rejects, the empty text,
\* text that parses to null (a comment, `~`), or a document: its root as a
\* node and the members of its root.
Unparseable == [kind |-> "unparseable"]
EmptyText == [kind |-> "empty"]
NullDocument == [kind |-> "null"]
FileDocument(node, members) == [kind |-> "doc", node |-> node, members |-> members]

\* parts.join(sep)
RECURSIVE Join(_, _)
Join(parts, sep) ==
    IF parts = <<>> THEN ""
    ELSE IF Len(parts) = 1 THEN parts[1]
    ELSE parts[1] \o sep \o Join(Tail(parts), sep)

\* s.lastIndexOf(c), counted from 1, 0 when c is not in s
LastIndexOf(s, c) ==
    LET hits == {i \in 1..Len(s) : CharAt(s, i) = c}
    IN  IF hits = {} THEN 0 ELSE CHOOSE i \in hits : \A j \in hits : j <= i

\* s.replace(/^prefix/, '')
StripPrefix(s, prefix) == IF StartsWith(s, prefix) THEN StrFrom(s, Len(prefix) + 1) ELSE s

\* resolveRef: "Resolve ../ - split path and process each segment"
RECURSIVE NormalizeParts(_, _)
NormalizeParts(pathParts, normalizedParts) ==
    IF pathParts = <<>> THEN normalizedParts
    ELSE NormalizeParts(Tail(pathParts),
            IF Head(pathParts) = ".."
            THEN IF normalizedParts = <<>> THEN <<>>
                 ELSE SubSeq(normalizedParts, 1, Len(normalizedParts) - 1)
            ELSE IF Head(pathParts) \in {".", ""} THEN normalizedParts
            ELSE Append(normalizedParts, Head(pathParts)))

\* A member of Object.prototype found where a node was looked for.
Inherited(empty) == [empty EXCEPT !.exotic = "inherited"]

\* The null or undefined a file without content parses to.
Nullish(empty) == [empty EXCEPT !.exotic = "null"]

\* for (const part of parts) { result = result[part]; if (!result) return {} }
\* over the members of one object: an own member is the node, a member
\* inherited from Object.prototype is that member, and so are the members it
\* inherits in its turn; anything else is missing. (No reference drawn below
\* names a scalar member of a schema, such as Age/type.)
Walk(parts, members, empty) ==
    LET own == parts[1] \in OwnKeys(members)
        rest == IF own THEN 2..Len(parts) ELSE 1..Len(parts)
    IN  IF Len(parts) = 1 /\ own
        THEN Get(members, parts[1])
        ELSE IF \A i \in rest : parts[i] \in ObjectPrototypeKeys
        THEN Inherited(empty)
        ELSE empty

\* resolveRef: "Internal reference": #/components/<section>/<name>, or a
\* way that leaves the document before it gets there.
ResolveInternal(ref, oasObj, empty) ==
    LET parts == StrSplit(StrFrom(ref, 3), "/")
    IN  IF parts[1] = "components" /\ Len(parts) >= 2
        THEN IF parts[2] \in DOMAIN oasObj.components /\ Len(parts) >= 3
             THEN Walk(SubSeq(parts, 3, Len(parts)), oasObj.components[parts[2]], empty)
             ELSE IF /\ parts[2] \notin DOMAIN oasObj.components
                     /\ \A i \in 2..Len(parts) : parts[i] \in ObjectPrototypeKeys
             THEN Inherited(empty)
             ELSE empty
        ELSE IF /\ parts[1] \notin {"components", "paths"}
                /\ \A i \in 1..Len(parts) : parts[i] \in ObjectPrototypeKeys
        THEN Inherited(empty)
        ELSE empty

\* files[name], when it is truthy: text that is not empty, or a member of
\* Object.prototype, which the codec rejects.
FileAt(otherFiles, name) ==
    IF name \in OwnKeys(otherFiles)
    THEN IF Get(otherFiles, name).kind # "empty" THEN Some(Get(otherFiles, name)) ELSE None
    ELSE IF name \in ObjectPrototypeKeys THEN Some(Unparseable)
    ELSE None

\* resolveRef: "External file reference"
ResolveExternal(ref, oasObj, empty) ==
    LET split == StrSplit(ref, "#")
        filePath == IF StrIncludes(ref, "#") THEN split[1] ELSE ref
        jsonPath == IF StrIncludes(ref, "#") THEN split[2] ELSE ""
        mainDir == SubSeq(oasObj.mainFile, 1, LastIndexOf(oasObj.mainFile, "/"))
        fullPath == Join(NormalizeParts(StrSplit(StripPrefix(mainDir \o filePath, "./"), "/"),
                                        <<>>), "/")
        first == FileAt(oasObj.files, fullPath)
        second == FileAt(oasObj.files, StripPrefix(StripPrefix(filePath, "../"), "./"))
        third == FileAt(oasObj.files, filePath)
        fileContent == IF first # None THEN first
                       ELSE IF second # None THEN second ELSE third
    IN  IF fileContent = None \/ fileContent[1].kind = "unparseable" THEN empty
        ELSE IF jsonPath # ""
        \* a step into null throws inside the try block: caught, {}
        THEN IF fileContent[1].kind = "null" THEN empty
             ELSE Walk(StrSplit(StrFrom(jsonPath, 2), "/"), fileContent[1].members, empty)
        ELSE IF fileContent[1].kind = "null" THEN Nullish(empty)
        ELSE fileContent[1].node

\* resolveRef(ref, oasObj, files, mainFile); empty is the {} it returns for a
\* reference it cannot follow.
resolveRef(ref, oasObj, empty) ==
    IF StartsWith(ref, "#/") THEN ResolveInternal(ref, oasObj, empty)
    ELSE IF StrIncludes(ref, "#") \/ StartsWith(ref, "./") \/ StartsWith(ref, "../")
    THEN ResolveExternal(ref, oasObj, empty)
    ELSE empty

\* const currentPath = path || 'root'
CurrentPath(path) == IF path = "" THEN "root" ELSE path

\* currentPath === 'root' ? prop : `${currentPath}.${prop}`
PropertyPath(currentPath, prop) ==
    IF currentPath = "root" THEN prop ELSE currentPath \o "." \o prop

\* `${currentPath}.${prop}`
DottedPath(currentPath, prop) == currentPath \o "." \o prop

\* `${currentPath}[${index}]`
IndexPath(currentPath, index) == currentPath \o "[" \o ToString(index) \o "]"

\* validateAgainstSchema: "Check required properties"
RECURSIVE CheckRequired(_, _, _, _)
CheckRequired(entries, required, currentPath, st) ==
    IF required = <<>> THEN st
    ELSE CheckRequired(entries, Tail(required), currentPath,
            IF In(Head(required), entries) THEN st
            ELSE Push(st, DottedPath(currentPath, Head(required)), "missing"))

\* validateAgainstSchema: "Check for additional properties"
RECURSIVE CheckAdditional(_, _, _, _)
CheckAdditional(entries, properties, currentPath, st) ==
    IF entries = <<>> THEN st
    ELSE CheckAdditional(Tail(entries), properties, currentPath,
            IF In(Head(entries).k, properties) THEN st
            ELSE Push(st, DottedPath(currentPath, Head(entries).k), "notAllowed"))

\* A top type check with no exemption.
TypeMismatchStrict(expectedType, actualType) ==
    expectedType # "" /\ expectedType # actualType

\* validateAgainstSchema: "Check type": a mismatch, the pair
\* (integer, number) excepted.
TypeMismatch(expectedType, actualType) ==
    /\ expectedType # "" /\ expectedType # actualType
    /\ ~(expectedType = "integer" /\ actualType = "number")

\* validateAgainstSchema: the string branch after its typeof check.
CheckString(value, schema, currentPath, st) ==
    LET s1 == IF schema.pattern # None /\ value.s \notin schema.pattern[1]
              THEN Push(st, currentPath, "pattern") ELSE st
        s2 == IF schema.minLength # None /\ Len(value.s) < schema.minLength[1]
              THEN Push(s1, currentPath, "minLength") ELSE s1
        s3 == IF schema.maxLength # None /\ Len(value.s) > schema.maxLength[1]
              THEN Push(s2, currentPath, "maxLength") ELSE s2
    IN  IF /\ schema.enum # None
           /\ \A i \in 1..Len(schema.enum[1]) : schema.enum[1][i] # value
        THEN Push(s3, currentPath, "enum") ELSE s3

\* validateAgainstSchema: the number branch after its typeof check.
CheckNumber(value, schema, currentPath, st) ==
    LET s1 == IF schema.type = "integer" /\ ~NumberIsInteger(value)
              THEN Push(st, currentPath, "notInteger") ELSE st
        s2 == IF schema.minimum # None /\ LessThan(value.num, schema.minimum[1])
              THEN Push(s1, currentPath, "minimum") ELSE s1
    IN  IF schema.maximum # None /\ LessThan(schema.maximum[1], value.num)
        THEN Push(s2, currentPath, "maximum") ELSE s2

RECURSIVE validateAgainstSchema(_, _, _, _, _, _)
RECURSIVE ValidateProperties(_, _, _, _, _, _)
RECURSIVE ValidateItems(_, _, _, _, _, _, _)

\* validateAgainstSchema: "Validate each property"
ValidateProperties(entries, properties, currentPath, st, oasObj, depth) ==
    IF properties = <<>> \/ st.threw THEN st
    ELSE ValidateProperties(entries, Tail(properties), currentPath,
            IF In(Head(properties).k, entries)
            THEN validateAgainstSchema(Get(entries, Head(properties).k),
                                       Head(properties).v,
                                       PropertyPath(currentPath, Head(properties).k),
                                       st, oasObj, depth + 1)
            ELSE st,
            oasObj, depth)

\* validateAgainstSchema: value.forEach((item, index) => ...)
ValidateItems(items, index, itemSchema, currentPath, st, oasObj, depth) ==
    IF index >= Len(items) \/ st.threw THEN st
    ELSE ValidateItems(items, index + 1, itemSchema, currentPath,
            validateAgainstSchema(items[index + 1], itemSchema,
                                  IndexPath(currentPath, index), st, oasObj, depth + 1),
            oasObj, depth)

\* validateAgainstSchema(value, schema, path, errors, oasObj, files, mainFile, depth)
validateAgainstSchema(value, schema0, path, st, oasObj, depth) ==
    IF st.threw \/ depth > MaxValidationDepth THEN st
    \* schema.$ref of undefined is a TypeError
    ELSE IF schema0.exotic = "null" THEN Throw(st)
    ELSE
    LET schema == IF schema0.ref # None
                  THEN resolveRef(schema0.ref[1], oasObj, EmptySchema) ELSE schema0
        currentPath == CurrentPath(path)
        expectedType == schema.type
        actualType == ActualType(value)
    IN
    \* schema.type of undefined is a TypeError
    IF schema.exotic = "null" THEN Throw(st)
    ELSE IF TypeMismatch(expectedType, actualType)
    THEN Push(st, currentPath, "type")
    ELSE IF expectedType = "object" \/ schema.properties # None
    THEN IF TypeOf(value) # "object" \/ value.t = "array"
         THEN Push(st, currentPath, "notObject")
         ELSE LET required == IF schema.required # None THEN schema.required[1] ELSE <<>>
                  properties == IF schema.properties # None THEN schema.properties[1] ELSE <<>>
              IN  IF value.t = "null"
                  \* `prop in null` and Object.keys(null) throw a TypeError
                  THEN IF \/ required # <<>> \/ properties # <<>>
                          \/ schema.additionalProperties = "false"
                       THEN Throw(st) ELSE st
                  ELSE LET s1 == CheckRequired(value.entries, required, currentPath, st)
                           s2 == ValidateProperties(value.entries, properties, currentPath,
                                                    s1, oasObj, depth)
                       IN  IF schema.additionalProperties = "false" /\ ~s2.threw
                           THEN CheckAdditional(value.entries, properties, currentPath, s2)
                           ELSE s2
    ELSE IF expectedType = "array" \/ schema.items # None
    THEN IF value.t # "array"
         THEN Push(st, currentPath, "notArray")
         ELSE LET s1 == IF schema.items # None
                        THEN ValidateItems(value.items, 0, schema.items[1], currentPath,
                                           st, oasObj, depth)
                        ELSE st
                  s2 == IF /\ schema.minItems # None /\ ~s1.threw
                           /\ Len(value.items) < schema.minItems[1]
                        THEN Push(s1, currentPath, "minItems") ELSE s1
              IN  IF /\ schema.maxItems # None /\ ~s2.threw
                     /\ Len(value.items) > schema.maxItems[1]
                  THEN Push(s2, currentPath, "maxItems") ELSE s2
    ELSE IF expectedType = "string"
    THEN IF value.t # "string"
         THEN Push(st, currentPath, "notString")
         ELSE CheckString(value, schema, currentPath, st)
    ELSE IF expectedType \in {"number", "integer"}
    THEN IF value.t # "number"
         THEN Push(st, currentPath, "notNumber")
         ELSE CheckNumber(value, schema, currentPath, st)
    ELSE IF expectedType = "boolean"
    THEN IF value.t # "boolean"
         THEN Push(st, currentPath, "notBoolean")
         ELSE st
    ELSE st

\* ---- validateParameters ----
\* A parameter definition; required absent is FALSE, schema absent is None.
Param(name, in, required, schema) ==
    [name |-> name, in |-> in, required |-> required, schema |-> schema]

\* Object.keys(paramValues).find(key => key.toLowerCase() === lowerParamName)
FindHeaderKey(paramValues, lowerParamName) ==
    LET hits == {i \in 1..Len(paramValues) : toLowerCase(paramValues[i].k) = lowerParamName}
    IN  IF hits = {} THEN None
        ELSE Some(paramValues[CHOOSE i \in hits : \A j \in hits : i <= j].k)

\* validateParameters: "Check if parameter value is provided"
ParamValue(paramDef, paramValues) ==
    IF paramDef.in = "header"
    THEN LET matchingKey == FindHeaderKey(paramValues, toLowerCase(paramDef.name))
         IN  IF matchingKey # None /\ matchingKey[1] # ""
             THEN Get(paramValues, matchingKey[1]) ELSE Undefined
    ELSE Get(paramValues, paramDef.name)

\* paramValue === undefined || paramValue === null || paramValue === ''
IsMissing(paramValue) ==
    \/ paramValue.t \in {"undefined", "null"}
    \/ paramValue.t = "string" /\ paramValue.s = ""

\* paramValue.split(',').map(v => v.trim())
SplitTrimmed(s) ==
    LET parts == StrSplit(s, ",") IN [i \in 1..Len(parts) |-> String(Trim(parts[i]))]

\* validateParameters: "Convert string values to appropriate types based on
\* schema": the converted value, or the kind of the error pushed instead.
Coerce(paramValue, resolvedSchema) ==
    IF paramValue.t # "string" \/ resolvedSchema.type = ""
    THEN [error |-> "", value |-> paramValue]
    ELSE IF resolvedSchema.type \in {"integer", "number"}
    THEN LET converted == ToNumber(paramValue.s)
         IN  IF converted.nan
             THEN [error |-> "notANumber", value |-> paramValue]
             ELSE [error |-> "", value |-> [t |-> "number", num |-> converted.num]]
    ELSE IF resolvedSchema.type = "boolean"
    THEN IF paramValue.s = "true" THEN [error |-> "", value |-> Bool(TRUE)]
         ELSE IF paramValue.s = "false" THEN [error |-> "", value |-> Bool(FALSE)]
         ELSE [error |-> "notABoolean", value |-> paramValue]
    ELSE IF resolvedSchema.type = "array"
    THEN [error |-> "", value |-> Array(SplitTrimmed(paramValue.s))]
    ELSE [error |-> "", value |-> paramValue]

\* validateParameters: the body of its loop, for one inline parameter.
ValidateParameter(paramDef, paramValues, st, oasObj) ==
    LET paramValue == ParamValue(paramDef, paramValues)
        schema == IF paramDef.schema # None THEN paramDef.schema[1] ELSE EmptySchema
        resolvedSchema == IF schema.ref # None
                          THEN resolveRef(schema.ref[1], oasObj, EmptySchema) ELSE schema
        coerced == Coerce(paramValue, resolvedSchema)
    IN  IF paramDef.required /\ IsMissing(paramValue)
        THEN Push(st, paramDef.name, "missingParameter")
        ELSE IF paramValue.t \in {"undefined", "null"} THEN st
        ELSE IF resolvedSchema.exotic = "null" THEN Throw(st)
        ELSE IF coerced.error # "" THEN Push(st, paramDef.name, coerced.error)
        ELSE validateAgainstSchema(coerced.value, resolvedSchema, paramDef.name,
                                   st, oasObj, 0)

\* validateParameters(parameters, paramValues, errors, oasObj, files, mainFile)
RECURSIVE validateParameters(_, _, _, _)
validateParameters(parameters, paramValues, st, oasObj) ==
    IF parameters = <<>> \/ st.threw THEN st
    ELSE validateParameters(Tail(parameters), paramValues,
                            ValidateParameter(Head(parameters), paramValues, st, oasObj),
                            oasObj)

\* ---- validatePayload ----
\* validatePayload: "Parse query string"
RECURSIVE ParseQuery(_, _)
ParseQuery(queryPairs, queryParams) ==
    IF queryPairs = <<>> THEN [threw |-> FALSE, params |-> queryParams]
    ELSE LET parts == StrSplit(Head(queryPairs), "=")
             key == parts[1]
             value == IF Len(parts) >= 2 THEN parts[2] ELSE ""
             decodedKey == decodeURIComponent(key)
             decodedValue == decodeURIComponent(value)
         IN  IF key = "" THEN ParseQuery(Tail(queryPairs), queryParams)
             ELSE IF decodedKey.threw \/ decodedValue.threw
             THEN [threw |-> TRUE, params |-> <<>>]
             ELSE ParseQuery(Tail(queryPairs),
                             Put(queryParams, decodedKey.s, String(decodedValue.s)))

\* The pattern built from a path template: one group ([^/?]+) for each
\* {name}, "." for any character, every other character for itself.
RECURSIVE TemplateTokens(_, _)
TemplateTokens(key, i) ==
    IF i > Len(key) THEN <<>>
    ELSE LET closes == {j \in (i + 2)..Len(key) : CharAt(key, j) = "}"}
             literal == [kind |-> IF CharAt(key, i) = "." THEN "any" ELSE "char",
                         c |-> CharAt(key, i)]
         IN  IF CharAt(key, i) = "{" /\ i + 1 <= Len(key) /\ CharAt(key, i + 1) # "}"
                /\ closes # {}
             THEN LET j == CHOOSE c \in closes : \A d \in closes : c <= d
                  IN  <<[kind |-> "group", c |-> SubSeq(key, i + 1, j - 1)]>>
                      \o TemplateTokens(key, j + 1)
             ELSE <<literal>> \o TemplateTokens(key, i + 1)

\* cleanPath.match(new RegExp(`^${pattern}$`)): None, or the captures.
RECURSIVE RegexMatch(_, _)
RegexMatch(tokens, s) ==
    IF tokens = <<>> THEN IF s = "" THEN Some(<<>>) ELSE None
    ELSE IF Head(tokens).kind = "group"
    THEN LET lens == {n \in 1..Len(s) :
                         /\ \A i \in 1..n : CharAt(s, i) \notin {"/", "?"}
                         /\ RegexMatch(Tail(tokens), StrFrom(s, n + 1)) # None}
         IN  IF lens = {} THEN None
             ELSE LET n == CHOOSE a \in lens : \A b \in lens : b <= a
                  IN  Some(<<SubSeq(s, 1, n)>>
                           \o RegexMatch(Tail(tokens), StrFrom(s, n + 1))[1])
    ELSE IF s # "" /\ (Head(tokens).kind = "any" \/ Head(s) = Head(tokens).c)
    THEN RegexMatch(Tail(tokens), Tail(s))
    ELSE None

\* The names of the groups, left to right.
GroupNames(tokens) ==
    LET groups == SelectSeq(tokens, LAMBDA t : t.kind = "group")
    IN  [i \in 1..Len(groups) |-> groups[i].c]

\* pathParams[paramNames[i]] = matches[i + 1]
RECURSIVE PathParamValues(_, _, _)
PathParamValues(paramNames, matches, pathParams) ==
    IF paramNames = <<>> THEN pathParams
    ELSE PathParamValues(Tail(paramNames), Tail(matches),
                         Put(pathParams, Head(paramNames), String(Head(matches))))

\* validatePayload: "If exact path not found, try to match path parameters":
\* the first template, in the order of the keys, that matches.
RECURSIVE MatchTemplate(_, _)
MatchTemplate(paths, cleanPath) ==
    IF paths = <<>> THEN [pathDef |-> None, pathParams |-> <<>>]
    ELSE LET tokens == TemplateTokens(Head(paths).k, 1)
             matches == RegexMatch(tokens, cleanPath)
         IN  IF matches # None
             THEN [pathDef |-> Some(Head(paths).v),
                   pathParams |-> PathParamValues(GroupNames(tokens), matches[1], <<>>)]
             ELSE MatchTemplate(Tail(paths), cleanPath)

\* A path item or an operation with no member of interest: what a lookup
\* that lands on a member of Object.prototype behaves as.
EmptyPathItem == [parameters |-> None, methods |-> <<>>]
EmptyMethodDef == [requestBody |-> None, parameters |-> None, responses |-> <<>>]
EmptyRequestBody == [exotic |-> "", ref |-> None, schema |-> None]

\* validatePayload: "Find the path in OAS"
FindPath(paths, cleanPath) ==
    IF cleanPath \in OwnKeys(paths)
    THEN [pathDef |-> Some(Get(paths, cleanPath)), pathParams |-> <<>>]
    ELSE IF cleanPath \in ObjectPrototypeKeys
    THEN [pathDef |-> Some(EmptyPathItem), pathParams |-> <<>>]
    ELSE MatchTemplate(paths, cleanPath)

\* pathDef[method.toLowerCase()]
FindMethod(pathDef, key) ==
    IF key \in OwnKeys(pathDef.methods) THEN Some(Get(pathDef.methods, key))
    ELSE IF key \in ObjectPrototypeKeys \/ (key = "parameters" /\ pathDef.parameters # None)
    THEN Some(EmptyMethodDef)
    ELSE None

\* What validatePayload gives back: the resolved { valid, errors }, or the
\* rejection 'Failed to validate payload: ...' of its catch block.
Outcome(valid, errors) == [kind |-> "returned", valid |-> valid, errors |-> errors]

\* return { valid: true, errors } whatever errors holds
ReturnedAsValid(errors) == Outcome(TRUE, errors)

\* return { valid: errors.length === 0, errors }
Returned(errors) == Outcome(errors = <<>>, errors)

\* return { valid: false, errors } and return { valid: true, errors: [] }
ReturnedInvalid(errors) == Outcome(FALSE, errors)
ReturnedValid == Outcome(TRUE, <<>>)
Thrown == [kind |-> "thrown", valid |-> FALSE, errors |-> <<>>]
Finished(st) == IF st.threw THEN Thrown ELSE Returned(st.errors)

\* Object.keys(obj), in order
KeysOf(entries) == [i \in 1..Len(entries) |-> entries[i].k]

HttpMethods == {"get", "post", "put", "patch", "delete", "options", "head"}

\* A missing path or method reported without listing what is available.
AbsentUnlisted(field, kind, listed) == ReturnedInvalid(<<ListingError(field, kind, <<>>)>>)

\* validatePayload: if (!pathDef) and if (!methodDef): one error whose
\* message lists what is available, returned with valid: false.
AbsentReturns(field, kind, listed) == ReturnedInvalid(<<ListingError(field, kind, listed)>>)

\* Object.keys(pathDef).filter(k => [...].includes(k.toLowerCase()))
AvailableMethods(pathDef) ==
    SelectSeq(KeysOf(pathDef.methods), LAMBDA k : toLowerCase(k) \in HttpMethods)

\* validatePayload: "Resolve $ref if present" and "Validate payload against
\* schema"
ValidateBody(payload, schema0, oasObj) ==
    LET schema == IF schema0.ref # None
                  THEN resolveRef(schema0.ref[1], oasObj, EmptySchema) ELSE schema0
    IN  Finished(validateAgainstSchema(payload, schema, "", NoErrors, oasObj, 0))

\* validatePayload: the branch for GET, HEAD and DELETE without a request body
ValidateWithoutBody(methodDef, pathDef, options, queryParams, pathParams, oasObj) ==
    LET parameters == IF methodDef.parameters # None THEN methodDef.parameters[1]
                      ELSE IF pathDef.parameters # None THEN pathDef.parameters[1]
                      ELSE <<>>
        payload == options.payload
        headers == options.headers
        merged == Assign(Assign(queryParams, pathParams),
                         IF Truthy(payload) /\ TypeOf(payload) = "object"
                         THEN EntriesOf(payload) ELSE <<>>)
        allParams == IF /\ Truthy(headers) /\ TypeOf(headers) = "object"
                        /\ EntriesOf(headers) # <<>>
                     THEN Assign(merged, EntriesOf(headers)) ELSE merged
    IN  IF parameters = <<>> /\ ~Truthy(headers) THEN ReturnedValid
        ELSE IF allParams # <<>> \/ parameters # <<>>
        THEN Finished(validateParameters(parameters, allParams, NoErrors, oasObj))
        ELSE ReturnedValid

\* validatePayload: if (type === 'request')
ValidateRequest(methodDef, pathDef, options, queryParams, pathParams, oasObj) ==
    IF methodDef.requestBody = None
    THEN IF toUpperCase(options.method) \in {"GET", "HEAD", "DELETE"}
         THEN ValidateWithoutBody(methodDef, pathDef, options, queryParams, pathParams, oasObj)
         ELSE ReturnedInvalid(<<FieldError("requestBody", "noRequestBody")>>)
    ELSE LET requestBody == IF methodDef.requestBody[1].ref # None
                            THEN resolveRef(methodDef.requestBody[1].ref[1], oasObj,
                                            EmptyRequestBody)
                            ELSE methodDef.requestBody[1]
         IN  \* requestBody.content of undefined is a TypeError
             IF requestBody.exotic = "null" THEN Thrown
             ELSE IF requestBody.schema = None
             THEN ReturnedInvalid(<<FieldError("schema", "noSchema")>>)
             ELSE ValidateBody(options.payload, requestBody.schema[1], oasObj)

\* validatePayload: the else branch, "Validate response body"
ValidateResponse(methodDef, options, oasObj) ==
    LET codes == {i \in 1..Len(methodDef.responses) :
                     StartsWith(methodDef.responses[i].k, "2")}
        successCode == CHOOSE i \in codes : \A j \in codes : i <= j
    IN  IF codes = {} THEN ReturnedInvalid(<<FieldError("response", "noSuccessResponse")>>)
        ELSE IF methodDef.responses[successCode].v.schema = None
        THEN ReturnedInvalid(<<FieldError("schema", "noSchema")>>)
        ELSE ValidateBody(options.payload, methodDef.responses[successCode].v.schema[1],
                          oasObj)

\* validatePayload(files, mainOasFile, options); mainContent is None when
\* files[mainOasFile] is missing or empty, else the parsed document.
validatePayload(otherFiles, mainOasFile, mainContent, options) ==
    LET hasQuery == StrIncludes(options.path, "?")
        split == StrSplit(options.path, "?")
        cleanPath == IF hasQuery THEN split[1] ELSE options.path
        query == IF hasQuery THEN ParseQuery(StrSplit(split[2], "&"), <<>>)
                 ELSE [threw |-> FALSE, params |-> <<>>]
    IN  IF query.threw \/ mainContent = None THEN Thrown
        ELSE
        LET oasObj == WithFiles(mainContent[1], otherFiles, mainOasFile)
            found == FindPath(oasObj.paths, cleanPath)
        IN  IF found.pathDef = None
            THEN AbsentReturns("path", "pathNotFound", KeysOf(oasObj.paths))
            ELSE
            LET pathDef == found.pathDef[1]
                methodDef == FindMethod(pathDef, toLowerCase(options.method))
            IN  IF methodDef = None
                THEN AbsentReturns("method", "methodNotDefined", AvailableMethods(pathDef))
                ELSE IF options.type = "request"
                THEN ValidateRequest(methodDef[1], pathDef, options, query.params,
                                     found.pathParams, oasObj)
                ELSE ValidateResponse(methodDef[1], options, oasObj)

\* ---- the documents and requests validate is called with ----
\* The longest query string, and the most properties of a payload object.
MaxQueryLen == 3
MaxProps == 2

QueryAlphabet == {"i", "=", "&", "%", "4"}

RECURSIVE StringsUpTo(_, _)
StringsUpTo(alphabet, n) ==
    IF n = 0 THEN {""}
    ELSE LET shorter == StringsUpTo(alphabet, n - 1)
         IN  shorter \cup {str \o c : str \in shorter, c \in alphabet}

TypeSchema(type) == [EmptySchema EXCEPT !.type = type]
RefSchema(ref) == [EmptySchema EXCEPT !.ref = Some(ref)]
ObjectSchema(type, required, properties, additionalProperties) ==
    [EmptySchema EXCEPT !.type = type, !.required = required, !.properties = properties,
                        !.additionalProperties = additionalProperties]

AddressSchema ==
    ObjectSchema("object", Some(<<"city">>), Some(<<Prop("city", TypeSchema("string"))>>),
                 "undefined")

PropertyMaps ==
    {None,
     Some(<<>>),
     Some(<<Prop("name", TypeSchema("string"))>>),
     Some(<<Prop("name", TypeSchema("string")), Prop("age", TypeSchema("integer"))>>),
     Some(<<Prop("address", AddressSchema)>>),
     Some(<<Prop("name", TypeSchema("string")), Prop("address", AddressSchema)>>),
     Some(<<Prop("age", RefSchema("#/components/schemas/Age"))>>)}

RequiredLists ==
    {None, Some(<<"name">>), Some(<<"name", "age">>), Some(<<"toString">>),
     Some(<<"address">>)}

ObjectSchemas ==
    {ObjectSchema(type, required, properties, additionalProperties) :
        type \in {"object", ""}, required \in RequiredLists, properties \in PropertyMaps,
        additionalProperties \in {"undefined", "true", "false"}}

ScalarSchemas ==
    {EmptySchema,
     TypeSchema("integer"),
     [TypeSchema("integer") EXCEPT !.enum = Some(<<Num(1, 0)>>)],
     [TypeSchema("integer") EXCEPT !.minimum = Some(Decimal(0, 0)),
                                   !.maximum = Some(Decimal(5, 0))],
     TypeSchema("number"),
     [TypeSchema("string") EXCEPT !.minLength = Some(2), !.enum = Some(<<String("bob")>>)],
     TypeSchema("boolean"),
     [TypeSchema("boolean") EXCEPT !.enum = Some(<<Bool(FALSE)>>)],
     [TypeSchema("array") EXCEPT !.items = Some(TypeSchema("integer")),
                                 !.minItems = Some(1)],
     RefSchema("#/components/schemas/Age"),
     RefSchema("#/components/schemas/Nope")}

BodySchemas == ObjectSchemas \cup ScalarSchemas

Components ==
    [schemas |-> <<Prop("Age", TypeSchema("integer")), Prop("Address", AddressSchema)>>,
     requestBodies |-> <<Prop("NewOrder",
                              [EmptyRequestBody EXCEPT !.schema = Some(TypeSchema("integer"))])>>]

PropChoices ==
    {Prop("name", String("bob")), Prop("name", Num(1, 0)),
     Prop("age", Num(3, 0)), Prop("age", Num(55, 1)),
     Prop("extra", Num(1, 0)), Prop("constructor", Num(1, 0)),
     Prop("address", Null),
     Prop("address", Object(<<>>)),
     Prop("address", Object(<<Prop("city", String("x"))>>))}

\* The property lists of at most n properties with distinct keys.
RECURSIVE EntryLists(_)
EntryLists(n) ==
    IF n = 0 THEN {<<>>}
    ELSE LET shorter == EntryLists(n - 1)
         IN  shorter \cup {Append(entries, prop) :
                              entries \in shorter,
                              prop \in PropChoices}

DistinctKeys(entries) == Cardinality(OwnKeys(entries)) = Len(entries)

ObjectPayloads == {Object(entries) : entries \in {e \in EntryLists(MaxProps) : DistinctKeys(e)}}

ScalarPayloads ==
    {Undefined, Null, Bool(TRUE), Num(3, 0), Num(55, 1), Num(-5, 1),
     String("bob"), String(""), Array(<<>>), Array(<<Num(55, 1), Num(1, 0)>>),
     Array(<<String("x"), Num(55, 1)>>)}

Payloads == ObjectPayloads \cup ScalarPayloads

Options(payload, path, method, type, headers) ==
    [payload |-> payload, path |-> path, method |-> method, type |-> type,
     headers |-> headers]

\* files: the files of the FileSet besides the main one.
CallIn(otherFiles, mainOasFile, mainContent, options) ==
    [files |-> otherFiles, mainOasFile |-> mainOasFile, mainContent |-> mainContent,
     options |-> options]

Call(mainContent, options) == CallIn(<<>>, "api/openapi.yaml", mainContent, options)

MethodDef(requestBody, parameters, responses) ==
    [requestBody |-> requestBody, parameters |-> parameters, responses |-> responses]

PathItem(parameters, methods) == [parameters |-> parameters, methods |-> methods]

Document(paths) == [paths |-> paths, components |-> Components]

\* POST /users with the body schema given.
UsersDocument(schema) ==
    Document(<<Prop("/users",
                    PathItem(None,
                             <<Prop("post",
                                    MethodDef(Some([EmptyRequestBody EXCEPT !.schema = Some(schema)]),
                                              None, <<>>))>>))>>)

\* /orders, whose GET, HEAD and DELETE declare the parameters given and no
\* request body, and /orders/{id}.
OrdersDocument(parameters) ==
    LET bodiless == MethodDef(None, parameters,
                              <<Prop("404", [schema |-> None]),
                                Prop("200", [schema |-> Some(TypeSchema("integer"))])>>)
        byId == MethodDef(None,
                          Some(<<Param("id", "path", TRUE, Some(TypeSchema("integer")))>>),
                          <<Prop("204", [schema |-> None])>>)
    IN  Document(<<Prop("/orders",
                        PathItem(None,
                                 <<Prop("get", bodiless), Prop("head", bodiless),
                                   Prop("delete", bodiless),
                                   Prop("post", MethodDef(None, None, <<>>)),
                                   Prop("put",
                                        MethodDef(Some([EmptyRequestBody EXCEPT
                                                          !.ref = Some("#/components/requestBodies/NewOrder")]),
                                                  None, <<>>)),
                                   Prop("patch",
                                        MethodDef(Some([EmptyRequestBody EXCEPT
                                                          !.ref = Some("#/components/requestBodies/Nope")]),
                                                  None, <<>>))>>)),
                   Prop("/orders/{id}", PathItem(None, <<Prop("get", byId)>>))>>)

HeaderMaps == {Undefined, Object(<<>>), Object(<<Prop("X-Id", String("7"))>>)}

\* A request with a body, against each body schema.
BodyCall ==
    \E schema \in BodySchemas, payload \in Payloads, method \in {"POST", "post"} :
        request = Call(Some(UsersDocument(schema)),
                       Options(payload, "/users", method, "request", Undefined))

\* The other files of a FileSet whose main file is api/openapi.yaml.
OtherFiles ==
    <<Prop("api/types.yaml", FileDocument(EmptySchema, <<Prop("Age", TypeSchema("integer"))>>)),
      Prop("common.yaml", FileDocument(EmptySchema, <<Prop("Age", TypeSchema("integer"))>>)),
      Prop("api/age.yaml", FileDocument(TypeSchema("integer"), <<>>)),
      Prop("api/bad.yaml", Unparseable),
      Prop("api/blank.yaml", EmptyText),
      Prop("api/null.yaml", NullDocument)>>

\* References that lead to a schema and references that lead nowhere, of
\* every shape resolveRef tells apart.
References ==
    {"#/components/schemas/Age", "#/components/schemas/Nope", "#/components/nope/Age",
     "#/nope", "#/components/schemas/constructor", "#/constructor",
     "#/components/schemas/Age/nope",
     "./types.yaml#/Age", "types.yaml#/Age", "../common.yaml#/Age", "./age.yaml",
     "./missing.yaml", "./missing.yaml#/Age", "./blank.yaml",
     "./bad.yaml", "./bad.yaml#/Age",
     "./types.yaml#/Nope", "./types.yaml#/constructor", "./null.yaml#/Age", "./null.yaml",
     "age.yaml", "http://example.com/age.yaml"}

\* POST /users whose body schema is a $ref, in a FileSet with and without
\* other files.
ReferenceCall ==
    \E ref \in References, otherFiles \in {<<>>, OtherFiles}, payload \in ScalarPayloads :
        request = CallIn(otherFiles, "api/openapi.yaml", Some(UsersDocument(RefSchema(ref))),
                         Options(payload, "/users", "POST", "request", Undefined))

\* GET, HEAD and DELETE against operations that declare no request body and
\* no parameters, with every query string over the alphabet.
BodilessCall ==
    \E parameters \in {None, Some(<<>>)},
       payload \in {Undefined, Null, Object(<<>>), Object(<<Prop("id", Num(3, 0))>>),
                    String("x"), Array(<<Num(1, 0)>>)},
       path \in {"/orders"}
                \cup {"/orders?" \o q : q \in StringsUpTo(QueryAlphabet, MaxQueryLen)},
       method \in {"GET", "HEAD", "DELETE", "get"},
       headers \in HeaderMaps :
        request = Call(Some(OrdersDocument(parameters)),
                       Options(payload, path, method, "request", headers))

ParameterLists ==
    {<<Param("id", "query", TRUE, Some(TypeSchema("integer")))>>,
     <<Param("id", "query", FALSE,
             Some([TypeSchema("number") EXCEPT !.minimum = Some(Decimal(4, 0))])),
       Param("flag", "query", FALSE, Some(TypeSchema("boolean")))>>,
     <<Param("X-Id", "header", TRUE, Some(TypeSchema("string")))>>,
     <<Param("tags", "query", FALSE,
             Some([TypeSchema("array") EXCEPT !.items = Some(TypeSchema("integer"))]))>>,
     <<Param("tags", "query", FALSE,
             Some([TypeSchema("array") EXCEPT !.items = Some(TypeSchema("string"))]))>>,
     <<Param("name", "query", TRUE, None)>>,
     <<Param("toString", "query", TRUE, Some(RefSchema("#/components/schemas/Age")))>>}

QueryStrings ==
    {"", "?", "?id=3", "?id=5.5", "?id=", "?id=abc", "?id=3&id=4", "?flag=true", "?flag=1",
     "?tags=1, 2", "?tags=", "?name=bob", "?x-id=7", "?id"}

\* GET and DELETE against operations that declare parameters.
ParameterCall ==
    \E parameters \in ParameterLists,
       payload \in {Undefined, Object(<<Prop("id", Num(3, 0))>>)},
       query \in QueryStrings,
       method \in {"GET", "delete"},
       headers \in HeaderMaps \cup {Object(<<Prop("x-id", String(""))>>)} :
        request = Call(Some(OrdersDocument(Some(parameters))),
                       Options(payload, "/orders" \o query, method, "request", headers))

\* The remaining ways through validatePayload.
OtherCall ==
    \E mainContent \in {None, Some(OrdersDocument(None))},
       payload \in {Undefined, Num(3, 0), Num(55, 1)},
       path \in {"/nope", "/orders", "/orders/7", "/orders/x", "/orders/7?id=8",
                 "/orders/", "constructor"},
       method \in {"GET", "POST", "PUT", "PATCH", "OPTIONS", "constructor"},
       type \in {"request", "response"} :
        request = Call(mainContent, Options(payload, path, method, type, Undefined))

\* A document whose paths are a template declared before a key it also
\* matches, a key with a dot in it, and a template of two names.
ItemsDocument ==
    LET plain == MethodDef(None, None, <<>>)
        byId == MethodDef(None,
                          Some(<<Param("id", "path", TRUE, Some(TypeSchema("integer")))>>),
                          <<>>)
        byPair == MethodDef(None,
                            Some(<<Param("a", "path", TRUE, Some(TypeSchema("integer"))),
                                   Param("b", "path", TRUE, Some(TypeSchema("boolean")))>>),
                            <<>>)
    IN  Document(<<Prop("/items/{id}", PathItem(None, <<Prop("get", byId)>>)),
                   Prop("/items/new", PathItem(None, <<Prop("get", plain)>>)),
                   Prop("/v1.0/items", PathItem(None, <<Prop("get", plain)>>)),
                   Prop("/pairs/{a}/{b}", PathItem(None, <<Prop("get", byPair)>>))>>)

\* GET of paths that are keys, that match templates and that do neither.
PathCall ==
    \E path \in {"/items/new", "/items/7", "/items/x", "/items/", "/items", "/items/7/8",
                 "items/7", "/items/7?id=x", "/v1.0/items", "/v1x0/items",
                 "/pairs/1/true", "/pairs/1/2", "/pairs//true", "/pairs/1"},
       method \in {"GET", "POST"} :
        request = Call(Some(ItemsDocument), Options(Undefined, path, method, "request", Undefined))

InitValidate ==
    /\ BodyCall \/ ReferenceCall \/ BodilessCall \/ ParameterCall \/ OtherCall \/ PathCall
    /\ outcome = Absent
    /\ valStatus = "called"
    /\ IdleInclude /\ IdleTraits /\ IdleMapper /\ IdleCall

\* validatePayload(files, mainOasFile, options)
ValidatePayload ==
    /\ valStatus = "called"
    /\ outcome' = validatePayload(request.files, request.mainOasFile, request.mainContent,
                                  request.options)
    /\ valStatus' = "settled"
    /\ UNCHANGED <<request, includeVars, traitVars, mapperVars, callVars>>

NextValidate == ValidatePayload

SpecValidate == InitValidate /\ [][NextValidate]_vars

\* ---- what the claims about the validator speak of ----
Settled == valStatus = "settled"

\* The call is a request with a body against POST /users.
IsBodyCall ==
    /\ request.mainContent # None
    /\ request.options.path = "/users"
    /\ request.options.type = "request"

\* The body schema POST /users declares.
BodySchema == request.mainContent[1].paths[1].v.methods[1].v.requestBody[1].schema[1]

\* The schema a node stands for once its reference is followed.
Resolved(schema) ==
    IF schema.ref # None
    THEN resolveRef(schema.ref[1],
                    WithFiles(request.mainContent[1], request.files, request.mainOasFile),
                    EmptySchema)
    ELSE schema

\* The errors reported for one field, in the order they were pushed.
ErrorsAt(field) == SelectSeq(outcome.errors, LAMBDA e : e.field = field)

ErrorsOfKindAt(kind, field) ==
    SelectSeq(outcome.errors, LAMBDA e : e.field = field /\ e.kind = kind)

\* C7: for an object payload validated at the root against a body schema
\* with a required list, every required name that is not a key of the payload
\* yields exactly one "missing" error whose field is the property name itself,
\* and validate returns valid:false.
C7_MissingFieldIsPropertyName ==
    (/\ Settled /\ IsBodyCall
     /\ request.options.payload.t = "object"
     /\ BodySchema.ref = None /\ BodySchema.type = "object"
     /\ BodySchema.required # None)
    => \A i \in 1..Len(BodySchema.required[1]) :
          BodySchema.required[1][i] \notin OwnKeys(request.options.payload.entries)
          => /\ outcome.kind = "returned"
             /\ ~outcome.valid
             /\ Len(ErrorsOfKindAt("missing", BodySchema.required[1][i])) = 1

\* ---- what the claim about sibling validation speaks of ----
\* The JSON type of a value: null is no object.
JsonType(value) == IF value.t = "null" THEN "null" ELSE ActualType(value)

\* The value is not of the type the schema declares, an integer being a
\* number.
MismatchesType(value, schema) ==
    /\ Resolved(schema).type # ""
    /\ Resolved(schema).type # JsonType(value)
    /\ ~(Resolved(schema).type = "integer" /\ JsonType(value) = "number")

\* The errors reported for a node and for what lies below it.
ErrorsUnder(field) ==
    SelectSeq(outcome.errors,
              LAMBDA e : \/ e.field = field
                         \/ StartsWith(e.field, field \o ".")
                         \/ StartsWith(e.field, field \o "["))

\* What validating the value by itself at the path adds to an empty list.
ValidatedAlone(value, schema, path) ==
    validateAgainstSchema(value, schema, path, NoErrors,
                          WithFiles(request.mainContent[1], request.files, request.mainOasFile),
                          1)

\* The body is an object validated against declared properties.
IsPropertiesCall ==
    /\ Settled /\ IsBodyCall
    /\ request.options.payload.t = "object"
    /\ BodySchema.ref = None /\ BodySchema.properties # None

\* The body is an array validated against an item schema.
IsItemsCall ==
    /\ Settled /\ IsBodyCall
    /\ request.options.payload.t = "array"
    /\ BodySchema.ref = None /\ BodySchema.type = "array" /\ BodySchema.items # None

\* The declared properties the body has, each with its schema and value.
PresentProperties ==
    LET declared == SelectSeq(BodySchema.properties[1],
                              LAMBDA member : In(member.k, request.options.payload.entries))
    IN  [i \in 1..Len(declared) |->
            [path |-> declared[i].k, schema |-> declared[i].v,
             value |-> Get(request.options.payload.entries, declared[i].k)]]

\* The items of the body, each with the item schema and its path.
PresentItems ==
    [i \in 1..Len(request.options.payload.items) |->
        [path |-> IndexPath("root", i - 1), schema |-> BodySchema.items[1],
         value |-> request.options.payload.items[i]]]

\* Among sibling nodes, one of a wrong type has exactly one error, itself
\* and what lies below it taken together, and every other node has the
\* errors it has when validated by itself.
SiblingsValidated(nodes) ==
    \A i \in 1..Len(nodes) :
        MismatchesType(nodes[i].value, nodes[i].schema)
        => /\ outcome.kind = "returned"
           /\ Len(ErrorsUnder(nodes[i].path)) = 1
           /\ \A j \in 1..Len(nodes) :
                 j # i =>
                     ErrorsUnder(nodes[j].path)
                         = ValidatedAlone(nodes[j].value, nodes[j].schema, nodes[j].path).errors

NoneNull(nodes) == \A i \in 1..Len(nodes) : nodes[i].value.t # "null"

\* C20: a property or an array element of a wrong type has exactly one
\* error, and every other declared property the value has, and every other
\* element, has the errors of its own validation in the final list.
C20_MismatchLeavesSiblingsValidated ==
    /\ IsPropertiesCall => SiblingsValidated(PresentProperties)
    /\ IsItemsCall => SiblingsValidated(PresentItems)

\* The same when no property and no element is null, which the validator
\* takes for an object.
MismatchLeavesSiblingsValidatedButNull ==
    /\ (IsPropertiesCall /\ NoneNull(PresentProperties)) => SiblingsValidated(PresentProperties)
    /\ (IsItemsCall /\ NoneNull(PresentItems)) => SiblingsValidated(PresentItems)

\* A property of a wrong type has its one error next to the error of a
\* sibling, and so has an array element.
MismatchBesideSiblingError ==
    /\ Settled /\ outcome.kind = "returned"
    /\ \/ /\ IsPropertiesCall /\ NoneNull(PresentProperties)
          /\ outcome.errors = <<FieldError("name", "type"), FieldError("age", "notInteger")>>
       \/ /\ IsItemsCall
          /\ outcome.errors = <<FieldError("root[0]", "type"), FieldError("root[1]", "notInteger")>>

\* A schema {type: integer} without minimum and maximum.
IsPlainInteger(schema) ==
    /\ Resolved(schema).type = "integer"
    /\ Resolved(schema).minimum = None
    /\ Resolved(schema).maximum = None

IsFraction(value) == value.t = "number" /\ ~NumberIsInteger(value)

\* The operation of /orders the call addresses.
OrdersOperation ==
    Get(Get(request.mainContent[1].paths, "/orders").methods,
        toLowerCase(request.options.method))

\* C8: a number that is not a mathematical integer, validated against a
\* schema {type: integer} without minimum/maximum, produces exactly one error
\* at its field, the non-integer error, and no type-mismatch error: as the
\* body itself, as a property of the body, as an item of an array body, and as
\* a query parameter.
C8_OneNonIntegerError ==
    /\ (/\ Settled /\ IsBodyCall
        /\ IsPlainInteger(BodySchema)
        /\ IsFraction(request.options.payload))
       => outcome = Returned(<<FieldError("root", "notInteger")>>)
    /\ (/\ Settled /\ IsBodyCall
        /\ request.options.payload.t = "object"
        /\ BodySchema.ref = None /\ BodySchema.properties # None)
       => \A i \in 1..Len(BodySchema.properties[1]) :
             LET prop == BodySchema.properties[1][i].k
             IN  (/\ IsPlainInteger(BodySchema.properties[1][i].v)
                  /\ prop \in OwnKeys(request.options.payload.entries)
                  /\ IsFraction(Get(request.options.payload.entries, prop)))
                 => /\ outcome.kind = "returned"
                    /\ ErrorsAt(prop) = <<FieldError(prop, "notInteger")>>
    /\ (/\ Settled /\ IsBodyCall
        /\ request.options.payload.t = "array"
        /\ BodySchema.ref = None /\ BodySchema.type = "array" /\ BodySchema.items # None
        /\ IsPlainInteger(BodySchema.items[1]))
       => \A i \in 1..Len(request.options.payload.items) :
             IsFraction(request.options.payload.items[i])
             => /\ outcome.kind = "returned"
                /\ ErrorsAt(IndexPath("root", i - 1))
                   = <<FieldError(IndexPath("root", i - 1), "notInteger")>>
    /\ (/\ Settled
        /\ request.mainContent # None
        /\ request.options.path = "/orders?id=5.5"
        /\ request.options.type = "request"
        /\ request.options.payload = Undefined
        /\ request.options.method \in {"GET", "delete"}
        /\ OrdersOperation.parameters # None)
       => \A i \in 1..Len(OrdersOperation.parameters[1]) :
             (/\ OrdersOperation.parameters[1][i].name = "id"
              /\ OrdersOperation.parameters[1][i].schema # None
              /\ IsPlainInteger(OrdersOperation.parameters[1][i].schema[1]))
             => /\ outcome.kind = "returned"
                /\ ErrorsAt("id") = <<FieldError("id", "notInteger")>>

\* C8 witness: the body 5.5 has been validated against {type: integer} and
\* one non-integer error came back.
C8_Witness ==
    /\ Settled /\ IsBodyCall
    /\ BodySchema = TypeSchema("integer")
    /\ request.options.payload = Num(55, 1)
    /\ outcome.kind = "returned"
    /\ Len(outcome.errors) = 1
    /\ outcome.errors[1].kind = "notInteger"

\* C9: for an object value and an object schema with additionalProperties
\* false, each key of the value that is not declared in properties has exactly
\* one "not allowed" error and each declared key has none.
C9_OneErrorPerUndeclaredKey ==
    (/\ Settled /\ IsBodyCall
     /\ request.options.payload.t = "object"
     /\ BodySchema.ref = None /\ BodySchema.type = "object"
     /\ BodySchema.additionalProperties = "false")
    => /\ outcome.kind = "returned"
       /\ \A k \in OwnKeys(request.options.payload.entries) :
             Len(ErrorsOfKindAt("notAllowed", DottedPath("root", k)))
             = IF /\ BodySchema.properties # None
                  /\ k \in OwnKeys(BodySchema.properties[1])
               THEN 0 ELSE 1

\* C10: a request for GET, HEAD or DELETE on an operation that declares no
\* request body and no parameters returns valid:true with no errors, whatever
\* the query string, the payload and the headers.
C10_BodilessAlwaysValid ==
    (/\ Settled
     /\ request.mainContent # None
     /\ request.options.type = "request"
     /\ request.options.path = "/orders" \/ StartsWith(request.options.path, "/orders?")
     /\ toUpperCase(request.options.method) \in {"GET", "HEAD", "DELETE"}
     /\ OrdersOperation.requestBody = None
     /\ OrdersOperation.parameters \in {None, Some(<<>>)})
    => outcome = Returned(<<>>)

\* The path of the call without its query string.
CleanPath == StrSplit(request.options.path, "?")[1]

\* No key of the document's paths is the requested path or a template that
\* matches it.
PathAbsent ==
    /\ CleanPath \notin OwnKeys(request.mainContent[1].paths)
    /\ \A i \in 1..Len(request.mainContent[1].paths) :
          RegexMatch(TemplateTokens(request.mainContent[1].paths[i].k, 1), CleanPath) = None

\* The path is in the document and the requested HTTP method is not among
\* the methods of its path item.
MethodAbsent ==
    /\ ~PathAbsent
    /\ toLowerCase(request.options.method) \in HttpMethods
    /\ toLowerCase(request.options.method)
       \notin OwnKeys(FindPath(request.mainContent[1].paths, CleanPath).pathDef[1].methods)

Present(otherFiles) ==
    {"#/components/schemas/Age"} \cup
    (IF otherFiles = <<>> THEN {}
     ELSE {"./types.yaml#/Age", "types.yaml#/Age", "../common.yaml#/Age", "./age.yaml",
           "./null.yaml"})

\* The call validates a body against a schema that is a dangling $ref.
DanglingBody ==
    /\ IsBodyCall
    /\ BodySchema.ref # None
    /\ BodySchema.ref[1] \in References \ Present(request.files)

\* C12: for every dangling $ref (internal with a missing segment, external
\* with a missing file, an unparseable file or a missing fragment, or an
\* unsupported shape) resolveRef returns the empty node without raising, and
\* validating a value against a schema that is such a $ref adds no error.
C12_DanglingIsEmptyNode ==
    (Settled /\ DanglingBody) =>
        /\ Resolved(BodySchema) = EmptySchema
        /\ outcome = Returned(<<>>)

\* What does hold: no error is added, whatever the dangling reference.
C12_DanglingAddsNoError ==
    (Settled /\ DanglingBody) => outcome = Returned(<<>>)

(***************************************************************************)
(* LOCAL TYPE EXPANDER: resolveLocalTypeReferences and resolveTypeInObject *)
(* over a library's types collection.  A table is the sequence of its      *)
(* entries, name and fragment, in insertion order; a fragment is a JSON    *)
(* value.  The recursion of resolveTypeInObject is run on an explicit call *)
(* stack: a frame is one call, with its arguments obj and depth and the    *)
(* values the calls it made have returned so far, in the order it makes    *)
(* them.                                                                   *)
(***************************************************************************)
maxDepth == 10

\* { ...value }: the own enumerable properties of an object or an array, the
\* characters of a string under their indices, nothing of anything else.
Spread(value) ==
    IF value.t = "string"
    THEN [i \in 1..Len(value.s) |-> Prop(ToString(i - 1), String(CharAt(value.s, i)))]
    ELSE EntriesOf(value)

\* typeof value === 'string' && types[value]
IsTypeName(value, types) == value.t = "string" /\ Truthy(Get(types, value.s))

\* The values of the entries, in order.
Values(entries) == [i \in 1..Len(entries) |-> entries[i].v]

\* What assigning the entries one by one leaves as own properties: an
\* assignment to __proto__ makes none.
Made(entries) == SelectSeq(entries, LAMBDA member : member.k # "__proto__")

\* A call of resolveTypeInObject that hands a string back even at depth 0
\* only, and so goes one call deeper.
ReturnedBelowZero(obj, depth) == depth < 0 \/ ~Truthy(obj) \/ TypeOf(obj) # "object"

\* if (depth <= 0 || !obj || typeof obj !== 'object') return obj: what is
\* handed back as it is, a string among it.
ReturnedAsIs(obj, depth) == depth <= 0 \/ ~Truthy(obj) \/ TypeOf(obj) # "object"

\* if (obj.type && typeof obj.type === 'string' && types[obj.type])
IsReference(obj, types) == obj.t = "object" /\ IsTypeName(Get(obj.entries, "type"), types)

\* key === 'properties' && result.properties, for a key of obj and the
\* spread of the expanded type
MergesProperties(obj, expandedType) ==
    /\ "properties" \in OwnKeys(obj.entries)
    /\ Truthy(Get(Spread(expandedType), "properties"))

\* const mergedProps = { ...result.properties, ...obj[key] }
MergedProps(obj, expandedType) ==
    Assign(Spread(Get(Spread(expandedType), "properties")),
           Spread(Get(obj.entries, "properties")))

\* The arguments of the calls the loop "Recursively process nested objects"
\* makes for one key, in order.
CallsFor(key, value, types) ==
    CASE key = "properties" /\ TypeOf(value) = "object" -> Values(Spread(value))
      [] key = "items" /\ IsTypeName(value, types) -> <<Get(types, value.s)>>
      [] key = "type" /\ IsTypeName(value, types) -> <<>>
      [] key # "properties" /\ TypeOf(value) = "object" -> <<value>>
      [] key \notin {"items", "type"} /\ IsTypeName(value, types) -> <<Get(types, value.s)>>
      [] OTHER -> <<>>

\* The arguments of the calls made for the first n keys.
RECURSIVE CallsUpTo(_, _, _)
CallsUpTo(keys, n, types) ==
    IF n = 0 THEN <<>>
    ELSE CallsUpTo(keys, n - 1, types) \o CallsFor(keys[n].k, keys[n].v, types)

\* The arguments of the calls a call makes, in order, as far as the values
\* returned to it so far determine them: the properties merged with those of
\* an expanded type are known once the expanded type is.
Calls(frame, types) ==
    IF ReturnedAsIs(frame.obj, frame.depth) THEN <<>>
    ELSE IF IsReference(frame.obj, types)
    THEN <<Get(types, Get(frame.obj.entries, "type").s)>>
         \o (IF frame.got # <<>> /\ MergesProperties(frame.obj, frame.got[1])
             THEN Values(MergedProps(frame.obj, frame.got[1])) ELSE <<>>)
    ELSE CallsUpTo(EntriesOf(frame.obj), Len(EntriesOf(frame.obj)), types)

\* The call has made all its calls.
Done(frame, types) == Len(frame.got) = Len(Calls(frame, types))

\* The entries with the values returned for them, the first of which is
\* got[first].
Filled(entries, got, first) ==
    [i \in 1..Len(entries) |-> Prop(entries[i].k, got[first + i - 1])]

\* "Merge expanded type with current properties": the spread of the expanded
\* type, with the other keys of obj set on it; properties is merged and
\* resolved when the expanded type has properties, and kept as written
\* otherwise, as every other key is.
Merged(obj, got) ==
    LET kept == SelectSeq(obj.entries, LAMBDA member : member.k # "type")
    IN  Object(Assign(Spread(got[1]),
                      Made([i \in 1..Len(kept) |->
                               IF kept[i].k = "properties" /\ MergesProperties(obj, got[1])
                               THEN Prop("properties",
                                         Object(Made(Filled(MergedProps(obj, got[1]), got, 2))))
                               ELSE kept[i]])))

\* Array.isArray(obj) ? [] : {} once its keys are set
Rebuilt(obj, entries) ==
    IF obj.t = "array" THEN Array(Values(entries)) ELSE Object(entries)

\* "Recursively process nested objects": each key set to what was returned
\* for it, or to its value when no call was made for it.
Processed(obj, got, types) ==
    LET keys == EntriesOf(obj)
    IN  Rebuilt(obj,
                Made([i \in 1..Len(keys) |->
                         LET first == Len(CallsUpTo(keys, i - 1, types)) + 1
                             made == CallsFor(keys[i].k, keys[i].v, types)
                         IN  Prop(keys[i].k,
                                  IF keys[i].k = "properties" /\ TypeOf(keys[i].v) = "object"
                                  THEN Object(Made(Filled(Spread(keys[i].v), got, first)))
                                  ELSE IF made # <<>> THEN got[first]
                                  ELSE keys[i].v)]))

\* What a call that has made all its calls returns.
Returns(frame, types) ==
    IF ReturnedAsIs(frame.obj, frame.depth) THEN frame.obj
    ELSE IF IsReference(frame.obj, types) THEN Merged(frame.obj, frame.got)
    ELSE Processed(frame.obj, frame.got, types)

\* resolveTypeInObject(obj, types, depth), entered
CallOf(obj, depth) == [obj |-> obj, depth |-> depth, got |-> <<>>]

\* ---- the type tables resolveLocalTypeReferences is called with ----
TypeNames == {"User", "Pet"}

\* A property map with the one property owner.
Owner(value) == Object(<<Prop("owner", value)>>)

\* Fragments with one of the names in every position a reference is looked
\* for: the bare string, the type value, a property given by its bare name
\* or by a type value, the items value, and a type value next to properties.
FragmentsNaming(names) ==
    {String(n) : n \in names}
    \cup {Object(<<Prop("type", String(n))>>) : n \in names}
    \cup {Object(<<Prop("type", String("object")),
                   Prop("properties", Owner(String(n)))>>) : n \in names}
    \cup {Object(<<Prop("type", String("object")),
                   Prop("properties", Owner(Object(<<Prop("type", String(n))>>)))>>) : n \in names}
    \cup {Object(<<Prop("type", String("array")), Prop("items", String(n))>>) : n \in names}
    \cup {Object(<<Prop("type", String("array")),
                   Prop("items", Object(<<Prop("type", String(n))>>))>>) : n \in names}
    \cup {Object(<<Prop("type", String(n)),
                   Prop("properties", Owner(Object(<<Prop("type", String(m))>>)))>>) :
             n \in names \cap TypeNames, m \in names}

\* User may name itself, Pet and a built-in type; Pet may name User and a
\* built-in type.
UserFragments == FragmentsNaming({"User", "Pet", "string"})
PetFragments == FragmentsNaming({"User", "string"})

\* call: the types handed over, the copy resolved, the index of the type the
\* second loop is at, and the stack of the calls of resolveTypeInObject,
\* the outermost first.
InitTypes ==
    /\ \E user \in UserFragments, pet \in PetFragments :
          LET types == <<Prop("User", user), Prop("Pet", pet)>>
          IN  call = [types |-> types, resolved |-> types, at |-> 1, stack |-> <<>>]
    /\ result = <<>>
    /\ callStatus = "called"
    /\ IdleInclude /\ IdleTraits /\ IdleMapper /\ IdleValidate

TopCall == call.stack[Len(call.stack)]

UnchangedButCall ==
    UNCHANGED <<result, callStatus, includeVars, traitVars, mapperVars, validateVars>>

\* for (const typeName in resolved): resolveTypeInObject(resolved[typeName], types, maxDepth - 1)
ResolveType ==
    /\ callStatus = "called"
    /\ call.stack = <<>>
    /\ call.at <= Len(call.resolved)
    /\ call' = [call EXCEPT !.stack = <<CallOf(call.resolved[call.at].v, maxDepth - 1)>>]
    /\ UnchangedButCall

\* resolveTypeInObject(..., types, depth - 1): the next call of the call on top
Recurse ==
    /\ callStatus = "called"
    /\ call.stack # <<>>
    /\ ~Done(TopCall, call.types)
    /\ call' = [call EXCEPT !.stack =
                   Append(@, CallOf(Calls(TopCall, call.types)[Len(TopCall.got) + 1], TopCall.depth - 1))]
    /\ UnchangedButCall

\* return obj / return result, to a call of resolveTypeInObject
Return ==
    /\ callStatus = "called"
    /\ Len(call.stack) > 1
    /\ Done(TopCall, call.types)
    /\ call' = [call EXCEPT !.stack =
                   [SubSeq(@, 1, Len(@) - 1) EXCEPT
                       ![Len(@) - 1].got = Append(@, Returns(TopCall, call.types))]]
    /\ UnchangedButCall

\* resolved[typeName] = what the outermost call returned
TypeResolved ==
    /\ callStatus = "called"
    /\ Len(call.stack) = 1
    /\ Done(TopCall, call.types)
    /\ call' = [call EXCEPT !.resolved = Made([@ EXCEPT ![call.at].v = Returns(TopCall, call.types)]),
                            !.at = @ + 1,
                            !.stack = <<>>]
    /\ UnchangedButCall

\* return resolved
ExpandLocalTypes ==
    /\ callStatus = "called"
    /\ call.stack = <<>>
    /\ call.at > Len(call.resolved)
    /\ result' = call.resolved
    /\ callStatus' = "returned"
    /\ UNCHANGED <<call, includeVars, traitVars, mapperVars, validateVars>>

NextTypes == ResolveType \/ Recurse \/ Return \/ TypeResolved \/ ExpandLocalTypes

SpecTypes == InitTypes /\ [][NextTypes]_vars

\* Every call that can be made or can return is, in the end.
FairTypes == SpecTypes /\ WF_vars(NextTypes)

\* ---- what the claims about the type expander speak of ----
Expanded == callStatus = "returned"

\* The names of the table a fragment mentions, in any place.
RECURSIVE Mentions(_, _)
Mentions(value, types) ==
    IF value.t = "string" THEN {value.s} \cap OwnKeys(types)
    ELSE LET members == EntriesOf(value)
         IN  UNION {Mentions(members[i].v, types) : i \in 1..Len(members)}

\* The names reached from a name by following mentions, in at most steps steps.
RECURSIVE Reaches(_, _, _)
Reaches(names, types, steps) ==
    IF steps = 0 THEN names
    ELSE Reaches(names \cup UNION {Mentions(Get(types, n), types) : n \in names},
                 types, steps - 1)

\* No type reaches itself.
Acyclic(types) ==
    \A n \in OwnKeys(types) :
        n \notin Reaches(Mentions(Get(types, n), types), types, Len(types))

\* Never more than the bound of calls nested, and the table returned has
\* exactly the type names of the table handed over.
BoundedAndSameNames ==
    /\ Len(call.stack) <= maxDepth
    /\ Expanded =>
           /\ OwnKeys(result) = OwnKeys(call.types)
           /\ Len(result) = Len(call.types)

\* C13: expandLocalTypes returns for every table, with a reference cycle or
\* without, never with more than the bound of 10 calls of resolveTypeInObject
\* nested, and the table it returns has exactly the type names of its input.
C13_TerminatesBoundedSameNames == []BoundedAndSameNames /\ <>Expanded

\* C13: a table with a cycle (User is of type Pet, Pet of type User) came
\* back, expanded down to the bound.
C13_Witness ==
    /\ Expanded
    /\ ~Acyclic(call.types)
    /\ Get(call.types, "User") = Object(<<Prop("type", String("Pet"))>>)
    /\ Get(call.types, "Pet") = Object(<<Prop("type", String("User"))>>)
    /\ Get(result, "User") = Object(<<Prop("type", String("User"))>>)

\* The listed positions of a fragment, none holding the bare name of a type
\* of the table: the value of a property under properties, the type value
\* and the items value, at every level.
RECURSIVE NoBareReference(_, _)
NoBareReference(value, types) ==
    LET members == EntriesOf(value)
        properties == Get(members, "properties")
        owned == EntriesOf(properties)
    IN  \/ value.t \notin {"object", "array"}
        \/ /\ \A i \in 1..Len(members) :
                 /\ members[i].k \in {"type", "items"} =>
                        ~(members[i].v.t = "string" /\ members[i].v.s \in OwnKeys(types))
                 /\ NoBareReference(members[i].v, types)
           /\ \A i \in 1..Len(owned) :
                 ~(owned[i].v.t = "string" /\ owned[i].v.s \in OwnKeys(types))

\* C14: for an acyclic table, every same-table reference in a listed
\* position (a property given by the bare name of a type, a type value, an
\* items value) is replaced by the type's fragment: none is left as the
\* bare name.
C14_ReferencesReplaced ==
    (Expanded /\ Acyclic(call.types)) =>
        \A i \in 1..Len(result) : NoBareReference(result[i].v, call.types)

(***************************************************************************)
(* THE INCLUDE EXPANDER ON TEXT: resolveIncludes and getIncludedContent,   *)
(* character by character, as convertRamlToOas calls them (the compile     *)
(* path: pass after pass while the text holds "!include") and as           *)
(* flattenRaml calls them (the flatten path: once).  A FileSet is the      *)
(* sequence of its entries, path and text.                                 *)
(***************************************************************************)
\* \s within a line, and the characters . does not match
IsSpace(c) == c \in {" ", "\t", "\r", "\n"}
AllSpace(s) == \A i \in 1..Len(s) : IsSpace(CharAt(s, i))
NoLineBreak(s) == \A i \in 1..Len(s) : CharAt(s, i) \notin {"\r", "\n"}

\* The number of whitespace characters s begins with.
LeadingSpace(s) ==
    IF AllSpace(s) THEN Len(s)
    ELSE (CHOOSE i \in 1..Len(s) : ~IsSpace(CharAt(s, i)) /\ AllSpace(SubSeq(s, 1, i - 1))) - 1

\* s.trim()
TrimSpace(s) ==
    IF AllSpace(s) THEN ""
    ELSE LET last == CHOOSE i \in 1..Len(s) :
                        ~IsSpace(CharAt(s, i)) /\ AllSpace(SubSeq(s, i + 1, Len(s)))
         IN  SubSeq(s, LeadingSpace(s) + 1, last)

\* ' '.repeat(n)
RECURSIVE Spaces(_)
Spaces(n) == IF n <= 0 THEN "" ELSE " " \o Spaces(n - 1)

\* s.includes(sub), s.endsWith(sub)
Contains(s, sub) ==
    \E i \in 1..(Len(s) - Len(sub) + 1) : SubSeq(s, i, i + Len(sub) - 1) = sub
EndsWith(s, sub) ==
    Len(s) >= Len(sub) /\ SubSeq(s, Len(s) - Len(sub) + 1, Len(s)) = sub

\* (.+) after the run of whitespace that follows !include
CapturedAfter(tail, run) ==
    IF run = 0 THEN None
    ELSE IF run < Len(tail)
    THEN IF NoLineBreak(StrFrom(tail, run + 1)) THEN Some(StrFrom(tail, run + 1)) ELSE None
    ELSE IF run >= 2 /\ NoLineBreak(CharAt(tail, run)) THEN Some(CharAt(tail, run))
    ELSE None

\* !include\s+(.+)$ at the start of what is left
TailAfterDirective(after) ==
    IF ~StartsWith(after, "!include") THEN None
    ELSE CapturedAfter(StrFrom(after, Len("!include") + 1),
                       LeadingSpace(StrFrom(after, Len("!include") + 1)))

\* \s*!include\s+(.+)$ on the rest of a line: the path it captures, if it
\* matches. \s+ is greedy and gives one character back when nothing is left
\* for (.+).
IncludeTail(rest) == TailAfterDirective(StrFrom(rest, LeadingSpace(rest) + 1))

\* What the match at m captures: m[1] the end of the indent, m[2] of the key.
KeyMatchAt(line, m) ==
    Some([indent |-> SubSeq(line, 1, m[1]),
          key |-> SubSeq(line, m[1] + 1, m[2]),
          includePath |-> IncludeTail(StrFrom(line, m[2] + 2))[1]])

\* Of the ways the pattern matches, the one the engine finds first.
FirstKeyMatch(line, matches) ==
    IF matches = {} THEN None
    ELSE KeyMatchAt(line, CHOOSE m \in matches :
                              \A n \in matches : n[1] < m[1] \/ (n[1] = m[1] /\ n[2] >= m[2]))

\* line.match(/^(\s*)(.+?):\s*!include\s+(.+)$/): the indent is the longest
\* that lets the rest match, the key the shortest after it.
includeAfterColon(line) ==
    FirstKeyMatch(line,
                  {m \in (0..Len(line)) \X (1..Len(line)) :
                      /\ m[1] < m[2] /\ m[2] < Len(line)
                      /\ AllSpace(SubSeq(line, 1, m[1]))
                      /\ NoLineBreak(SubSeq(line, m[1] + 1, m[2]))
                      /\ CharAt(line, m[2] + 1) = ":"
                      /\ IncludeTail(StrFrom(line, m[2] + 2)) # None})

BareMatch(line, captured) ==
    IF captured = None THEN None
    ELSE Some([indent |-> SubSeq(line, 1, LeadingSpace(line)), includePath |-> captured[1]])

\* line.match(/^(\s*)!include\s+(.+)$/)
includeAsValue(line) == BareMatch(line, IncludeTail(line))

docFolderPatterns == {"/doc/", "/docs/", "/documentation/", "doc/", "docs/", "documentation/"}

\* A documentation file looked up like any other file.
SkipsNothing(includePath, currentFile) == FALSE

\* docFolderPatterns.some(pattern => includePath.includes(pattern) || currentFile.includes(pattern))
SkipsDoc(includePath, currentFile) ==
    \E pattern \in docFolderPatterns :
        Contains(includePath, pattern) \/ Contains(currentFile, pattern)

\* currentDir ? `${currentDir}/${includePath}` : includePath, for a current
\* file in the root directory or below it. (No path drawn below holds a ./
\* or ../ segment or a leading slash, so the normalisation leaves it.)
ResolvedPath(includePath, currentFile) ==
    IF LastIndexOf(currentFile, "/") = 0 THEN includePath
    ELSE SubSeq(currentFile, 1, LastIndexOf(currentFile, "/")) \o includePath

\* getIncludedContent, "Try to find the file": the path under which the
\* file is found, if it is: the resolved path, the path as written, or the
\* first file of the FileSet whose path ends with either.
FoundAt(includePath, fileSet, currentFile) ==
    LET resolvedPath == ResolvedPath(includePath, currentFile)
        hits == {i \in 1..Len(fileSet) :
                    \/ EndsWith(fileSet[i].k, includePath)
                    \/ EndsWith(fileSet[i].k, resolvedPath)}
        first == CHOOSE i \in hits : \A j \in hits : i <= j
    IN  IF resolvedPath \in OwnKeys(fileSet) /\ Get(fileSet, resolvedPath) # ""
        THEN Some(resolvedPath)
        ELSE IF includePath \in OwnKeys(fileSet) /\ Get(fileSet, includePath) # ""
        THEN Some(includePath)
        ELSE IF hits # {} /\ fileSet[first].v # "" THEN Some(fileSet[first].k)
        ELSE None

\* getIncludedContent, "Remove RAML header from included content": the
\* lines after the first #%RAML line and the blank lines that follow it.
WithoutHeader(fileContent) ==
    LET contentLines == StrSplit(fileContent, "\n")
        headers == {j \in 1..Len(contentLines) :
                       StartsWith(TrimSpace(contentLines[j]), "#%RAML")}
        afterHeader == IF headers = {} THEN 1
                       ELSE (CHOOSE j \in headers : \A k \in headers : j <= k) + 1
        kept == {j \in afterHeader..Len(contentLines) : TrimSpace(contentLines[j]) # ""}
        startIndex == IF kept = {} THEN Len(contentLines) + 1
                      ELSE CHOOSE j \in kept : \A k \in kept : j <= k
    IN  Join(SubSeq(contentLines, startIndex, Len(contentLines)), "\n")

\* contentLine.search(/\S/) of the first line that is not blank, 0 if none
BaseIndent(contentLines) ==
    LET filled == {j \in 1..Len(contentLines) : TrimSpace(contentLines[j]) # ""}
    IN  IF filled = {} THEN 0
        ELSE LeadingSpace(contentLines[CHOOSE j \in filled : \A k \in filled : j <= k])

\* for (const contentLine of contentLines): every line that is not blank is
\* pushed trimmed, behind the host's indent and its own indent relative to
\* the included file's; a blank line is pushed as it is. (No text drawn
\* below holds a <tag>, so nothing is cleaned away.)
RECURSIVE PushContent(_, _, _, _)
PushContent(contentLines, hostIndent, baseIndent, lines) ==
    IF contentLines = <<>> THEN lines
    ELSE LET contentLine == Head(contentLines)
             relativeIndent == IF LeadingSpace(contentLine) > baseIndent
                               THEN LeadingSpace(contentLine) - baseIndent ELSE 0
             newIndent == hostIndent \o Spaces(relativeIndent)
             finalIndent == IF newIndent = "" /\ Len(lines) > 5 THEN "  " ELSE newIndent
         IN  PushContent(Tail(contentLines), hostIndent, baseIndent,
                         Append(lines, IF TrimSpace(contentLine) # ""
                                       THEN finalIndent \o TrimSpace(contentLine)
                                       ELSE contentLine))

Placeholder == "\"Documentation content skipped\""

\* What a call hands back: text, or the error it raised.
Text(text) == [threw |-> FALSE, text |-> text]
Raised == [threw |-> TRUE, text |-> ""]

RECURSIVE resolveIncludes(_, _, _, _)

\* "Remove RAML header from included content", of a file whose includes
\* were resolved
NestedContent(nested) ==
    IF nested.threw THEN Some(Raised) ELSE Some(Text(WithoutHeader(nested.text)))

\* "Recursively resolve includes in the included file", if it has any
FileContent(fileContent, path, fileSet, active) ==
    IF ~Contains(fileContent, "!include") THEN Some(Text(WithoutHeader(fileContent)))
    ELSE IF path \in active THEN Some(Raised)
    ELSE NestedContent(resolveIncludes(fileContent, fileSet, path, active \cup {path}))

\* if (!fileContent) return null
ContentFound(found, fileSet, active) ==
    IF found = None THEN None
    ELSE FileContent(Get(fileSet, found[1]), found[1], fileSet, active)

\* getIncludedContent(includePath, files, currentFile): '' for a skipped
\* documentation file, null (here None) for a file that is not found, the
\* file's text with its own includes resolved and its header removed
\* otherwise. active: the files whose resolveIncludes calls are running; a
\* file that comes to include itself recurses until the engine raises
\* RangeError.
getIncludedContent(includePath, fileSet, currentFile, active) ==
    IF SkipsDoc(includePath, currentFile) THEN Some(Text(""))
    ELSE ContentFound(FoundAt(includePath, fileSet, currentFile), fileSet, active)

\* A line kept with its carriage return.
WithCarriageReturn(raw) == raw

\* "Remove carriage return if present (Windows line endings)"
WithoutCarriageReturn(raw) ==
    IF EndsWith(raw, "\r") THEN SubSeq(raw, 1, Len(raw) - 1) ELSE raw

RECURSIVE ResolveLines(_, _, _, _, _, _)

\* The included lines behind the host's indent, under the key if there is one.
PushedUnder(contentLines, match, lines) ==
    IF "key" \in DOMAIN match
    THEN PushContent(contentLines, match.indent \o "  ", BaseIndent(contentLines),
                     Append(lines, match.indent \o match.key \o ":"))
    ELSE PushContent(contentLines, match.indent, BaseIndent(contentLines), lines)

\* The line a skipped include leaves.
PlaceholderLine(match) ==
    IF "key" \in DOMAIN match THEN match.indent \o match.key \o ": " \o Placeholder
    ELSE match.indent \o Placeholder

\* The lines after a directive was matched and its content fetched.
IncludeResolved(source, i, lines, fileSet, currentFile, active, match, fileContent) ==
    IF fileContent = None THEN Raised
    ELSE IF fileContent[1].threw THEN Raised
    ELSE ResolveLines(source, i + 1,
                      IF fileContent[1].text = "" THEN Append(lines, PlaceholderLine(match))
                      ELSE PushedUnder(StrSplit(fileContent[1].text, "\n"), match, lines),
                      fileSet, currentFile, active)

\* A line that is a directive, of the first pattern or else of the second.
Directive(source, i, lines, fileSet, currentFile, active, match) ==
    IncludeResolved(source, i, lines, fileSet, currentFile, active, match,
                    getIncludedContent(TrimSpace(match.includePath), fileSet, currentFile, active))

\* One line: kept, or replaced by what it includes.
ResolveLine(source, i, lines, fileSet, currentFile, active, line, keyed, bare) ==
    IF keyed # None
    THEN Directive(source, i, lines, fileSet, currentFile, active, keyed[1])
    ELSE IF bare # None
    THEN Directive(source, i, lines, fileSet, currentFile, active, bare[1])
    ELSE ResolveLines(source, i + 1, Append(lines, line), fileSet, currentFile, active)

\* The loop of resolveIncludes from line i on, lines holding what was pushed.
ResolveLines(source, i, lines, fileSet, currentFile, active) ==
    IF i > Len(source) THEN Text(Join(lines, "\n"))
    ELSE ResolveLine(source, i, lines, fileSet, currentFile, active,
                     WithoutCarriageReturn(source[i]),
                     includeAfterColon(WithoutCarriageReturn(source[i])),
                     includeAsValue(WithoutCarriageReturn(source[i])))

resolveIncludes(content, fileSet, currentFile, active) ==
    ResolveLines(StrSplit(content, "\n"), 1, <<>>, fileSet, currentFile, active)

\* ---- the FileSets and entry texts the expander is run on ----
\* Longest entry text, in lines.
MaxTextLines == 2

entryFile == "api.raml"
DocTargets == {"docs/d.md", "doc/e.md", "documentation/f.md"}
Indents == {"", "  "}

KeyInclude(indent, key, includePath) == indent \o key \o ": !include " \o includePath
BareInclude(indent, includePath) == indent \o "!include " \o includePath

\* Lines without a directive (one of them holding "!include" all the same),
\* and directives of both forms that name a documentation file, a file of
\* the FileSet and a file that is in no FileSet; each with and without a
\* carriage return at its end, and one line with two.
TextLines ==
    LET written == {"x", "  k: v", "- !include t.raml",
                    KeyInclude("", "k", "docs/d.md"), KeyInclude("  ", "k", "documentation/f.md"),
                    KeyInclude("  ", "k", "t.raml"), KeyInclude("", "k", "m.raml"),
                    BareInclude("", "doc/e.md"), BareInclude("  ", "docs/d.md"),
                    BareInclude("  ", "t.raml"), BareInclude("", "m.raml")}
    IN  written \cup {line \o "\r" : line \in written} \cup {"x\r\r"}

RECURSIVE TextsOf(_)
TextsOf(n) ==
    IF n = 1 THEN TextLines
    ELSE TextsOf(n - 1) \cup {text \o "\n" \o line : text \in TextsOf(n - 1), line \in TextLines}

\* The files besides the entry file: none, a file to include, and that file
\* with a documentation file.
Included == Prop("t.raml", "#%RAML 1.0 DataType\r\n\r\n  a:\r\n    b: 1")
OtherFileSets ==
    {<<>>, <<Included>>, <<Included, Prop("docs/d.md", "# D")>>}

\* call: the path taken, the FileSet, the text resolved so far and the
\* passes made.
InitText ==
    /\ \E route \in {"compile", "flatten"}, text \in TextsOf(MaxTextLines),
          others \in OtherFileSets :
          call = [route |-> route, files |-> <<Prop(entryFile, text)>> \o others,
                  text |-> text, iteration |-> 0]
    /\ result = ""
    /\ callStatus = "called"
    /\ IdleInclude /\ IdleTraits /\ IdleMapper /\ IdleValidate

Pass == resolveIncludes(call.text, call.files, entryFile, {entryFile})

UnchangedButText ==
    UNCHANGED <<includeVars, traitVars, mapperVars, validateVars>>

\* convertRamlToOas: while (resolvedContent.includes('!include') && iteration < maxIterations)
CompilePass ==
    /\ callStatus = "called" /\ call.route = "compile"
    /\ Contains(call.text, "!include") /\ call.iteration < maxIterations
    /\ ~Pass.threw
    /\ call' = [call EXCEPT !.text = Pass.text, !.iteration = @ + 1]
    /\ UNCHANGED <<result, callStatus>>
    /\ UnchangedButText

\* convertRamlToOas: the loop is left with the text resolved so far
CompileDone ==
    /\ callStatus = "called" /\ call.route = "compile"
    /\ ~(Contains(call.text, "!include") /\ call.iteration < maxIterations)
    /\ result' = call.text
    /\ callStatus' = "returned"
    /\ UNCHANGED call
    /\ UnchangedButText

\* flattenRaml: mainContent = resolveIncludes(mainContent, files, mainRamlFile)
Flatten ==
    /\ callStatus = "called" /\ call.route = "flatten"
    /\ ~Pass.threw
    /\ result' = Pass.text
    /\ callStatus' = "returned"
    /\ UNCHANGED call
    /\ UnchangedButText

\* throw new Error(errorMsg), out of either path
IncludeFails ==
    /\ callStatus = "called"
    /\ call.route = "compile" =>
           Contains(call.text, "!include") /\ call.iteration < maxIterations
    /\ Pass.threw
    /\ callStatus' = "thrown"
    /\ UNCHANGED <<call, result>>
    /\ UnchangedButText

NextText == CompilePass \/ CompileDone \/ Flatten \/ IncludeFails

SpecText == InitText /\ [][NextText]_vars

\* ---- what the claims about the expander on text speak of ----
\* The entry text as it was handed over, and its lines.
EntryText == Get(call.files, entryFile)
EntryLines == StrSplit(EntryText, "\n")

\* A line less the carriage return at its end, if it has one.
LineEndBare(line) ==
    IF line # "" /\ CharAt(line, Len(line)) = "\r" THEN SubSeq(line, 1, Len(line) - 1) ELSE line

\* A line that is an include directive, of either form.
IsDirective(line) ==
    includeAfterColon(LineEndBare(line)) # None \/ includeAsValue(LineEndBare(line)) # None

\* No file of the FileSet holds an include directive.
NoDirectives ==
    \A i \in 1..Len(call.files) :
        LET lines == StrSplit(call.files[i].v, "\n")
        IN  \A j \in 1..Len(lines) : ~IsDirective(lines[j])

\* The text with one carriage return taken from the end of every line that
\* has one.
LineEndsBare(text) ==
    LET lines == StrSplit(text, "\n")
    IN  Join([i \in 1..Len(lines) |-> LineEndBare(lines[i])], "\n")

\* The same, n times over.
RECURSIVE LineEndsBareTimes(_, _)
LineEndsBareTimes(text, n) ==
    IF n = 0 THEN text ELSE LineEndsBareTimes(LineEndsBare(text), n - 1)

\* C15 as stated: with no include directive in any file, the expander
\* returns the entry text character for character, carriage returns
\* included, on the compile path and on the flatten path.
C15_UnchangedCharacterForCharacter ==
    (callStatus # "called" /\ NoDirectives) =>
        callStatus = "returned" /\ result = EntryText

\* C15, amended: with no include directive in any file, the compile path
\* returns the entry text character for character when the text does not
\* hold the characters !include at all; the flatten path returns it with
\* one carriage return removed from the end of each line that has one and
\* nothing else changed, and so does each of the ten passes the compile
\* path makes over a text that holds !include outside a directive.
C15_UnchangedButLineEnds ==
    (callStatus # "called" /\ NoDirectives) =>
        /\ callStatus = "returned"
        /\ result = IF call.route = "flatten" THEN LineEndsBare(EntryText)
                    ELSE IF Contains(EntryText, "!include")
                    THEN LineEndsBareTimes(EntryText, maxIterations)
                    ELSE EntryText

\* C15: the flatten path returned a text of two lines that ended in
\* carriage returns, without them.
C15_Witness ==
    /\ callStatus = "returned" /\ call.route = "flatten" /\ NoDirectives
    /\ EntryText = "x\r\n  k: v\r"
    /\ result = "x\n  k: v"

\* The line a directive naming a documentation file is replaced by, and
\* any other line without the carriage return at its end.
SkippedLine(line) ==
    LET bare == LineEndBare(line)
    IN  IF \E indent \in Indents, target \in DocTargets : bare = KeyInclude(indent, "k", target)
        THEN LET indent == CHOOSE indent \in Indents :
                               \E target \in DocTargets : bare = KeyInclude(indent, "k", target)
             IN  indent \o "k: " \o Placeholder
        ELSE IF \E indent \in Indents, target \in DocTargets : bare = BareInclude(indent, target)
        THEN LET indent == CHOOSE indent \in Indents :
                               \E target \in DocTargets : bare = BareInclude(indent, target)
             IN  indent \o Placeholder
        ELSE bare

\* The line is a directive that names a documentation file.
NamesDocTarget(line) == SkippedLine(line) # LineEndBare(line)

\* The entry text has include directives, and each names a file under a
\* documentation directory.
OnlyDocDirectives ==
    /\ \E i \in 1..Len(EntryLines) : IsDirective(EntryLines[i])
    /\ \A i \in 1..Len(EntryLines) : IsDirective(EntryLines[i]) => NamesDocTarget(EntryLines[i])

\* C16: a directive whose target lies under doc/, docs/ or documentation/
\* never raises, whether the target is in the FileSet or not: the form
\* key: !include path becomes the key with the placeholder value, the bare
\* form the placeholder at the host's indent; a text whose directives all
\* name such targets is expanded without a missing-include failure.
C16_DocIncludeIsPlaceholder ==
    (callStatus # "called" /\ OnlyDocDirectives) =>
        /\ callStatus = "returned"
        /\ result = Join([i \in 1..Len(EntryLines) |-> SkippedLine(EntryLines[i])], "\n")

\* C16: a text with a directive of each form, naming documentation files
\* that are not in the FileSet, came back with the placeholders.
C16_Witness ==
    /\ callStatus = "returned"
    /\ call.files = <<Prop(entryFile, EntryText)>>
    /\ EntryText = KeyInclude("  ", "k", "documentation/f.md") \o "\n" \o BareInclude("  ", "docs/d.md")
    /\ result = "  k: " \o Placeholder \o "\n  " \o Placeholder

(***************************************************************************)
(* NORMALIZER: autoFixYamlIndentation, then autoFixYamlStructure, on text. *)
(***************************************************************************)
\* line.replace(/\t/g, '  ')
RECURSIVE TabsToSpaces(_)
TabsToSpaces(line) ==
    IF line = "" THEN ""
    ELSE (IF Head(line) = "\t" THEN "  " ELSE Head(line)) \o TabsToSpaces(Tail(line))

\* line.match(/^( +)/)?.[1]?.length || 0
LeadingBlanks(line) ==
    IF \A i \in 1..Len(line) : CharAt(line, i) = " " THEN Len(line)
    ELSE (CHOOSE i \in 1..Len(line) :
             CharAt(line, i) # " " /\ \A j \in 1..(i - 1) : CharAt(line, j) = " ") - 1

\* autoFixYamlIndentation, one line: a blank line and a comment are kept;
\* in any other line every tab becomes two spaces, and an odd number of
\* leading spaces is rounded up to the next even one before the trimmed line.
FixedIndentation(line) ==
    LET spaced == TabsToSpaces(line)
        leadingSpaces == LeadingBlanks(spaced)
    IN  IF TrimSpace(line) = "" \/ StartsWith(TrimSpace(line), "#") THEN line
        ELSE IF leadingSpaces % 2 # 0
        THEN Spaces(leadingSpaces + 1) \o TrimSpace(spaced)
        ELSE spaced

\* The lines of the text are the pieces between line feeds.
autoFixYamlIndentation(content) ==
    LET lines == StrSplit(content, "\n")
    IN  Join([i \in 1..Len(lines) |-> FixedIndentation(lines[i])], "\n")

\* content.replace(/\r\n/g, '\n').replace(/\r/g, '\n')
RECURSIVE WithoutWindowsLineEndings(_)
WithoutWindowsLineEndings(content) ==
    IF content = "" THEN ""
    ELSE IF StartsWith(content, "\r\n") THEN "\n" \o WithoutWindowsLineEndings(StrFrom(content, 3))
    ELSE IF Head(content) = "\r" THEN "\n" \o WithoutWindowsLineEndings(Tail(content))
    ELSE Head(content) \o WithoutWindowsLineEndings(Tail(content))

\* line.match(/^(\s*)([^:\s#]+):\s*(.*)$/): the key, if the line has one
KeyOf(line) ==
    LET rest == StrFrom(line, LeadingSpace(line) + 1)
        stops == {i \in 1..Len(rest) : IsSpace(CharAt(rest, i)) \/ CharAt(rest, i) \in {":", "#"}}
        stop == CHOOSE i \in stops : \A j \in stops : i <= j
    IN  IF stops = {} \/ stop = 1 \/ CharAt(rest, stop) # ":" THEN None
        ELSE Some(SubSeq(rest, 1, stop - 1))

\* indentStacks.forEach: delete every level deeper than indent
Shallower(indentStacks, indent) ==
    {level \in indentStacks : level.indent <= indent}

\* The loop of autoFixYamlStructure from line i on. indentStacks: the keys
\* seen, each with the indentation it was seen at.
RECURSIVE FixStructure(_, _, _, _, _)
FixStructure(lines, i, fixed, indentStacks, currentIndent) ==
    IF i > Len(lines) THEN Join(fixed, "\n")
    ELSE LET line == lines[i]
             indent == LeadingSpace(line)
             kept == IF indent < currentIndent THEN Shallower(indentStacks, indent)
                     ELSE indentStacks
             key == KeyOf(line)
         IN  IF TrimSpace(line) = ""
             THEN FixStructure(lines, i + 1, Append(fixed, line),
                               Shallower(indentStacks, currentIndent), currentIndent)
             ELSE IF key # None /\ [indent |-> indent, key |-> key[1]] \in kept
             THEN FixStructure(lines, i + 1,
                               Append(fixed, Spaces(indent) \o "# DUPLICATE REMOVED: " \o key[1]),
                               kept, indent)
             ELSE FixStructure(lines, i + 1, Append(fixed, line),
                               IF key # None
                               THEN kept \cup {[indent |-> indent, key |-> key[1]]} ELSE kept,
                               indent)

autoFixYamlStructure(content) ==
    FixStructure(StrSplit(WithoutWindowsLineEndings(content), "\n"), 1, <<>>, {}, -1)

\* let fixedContent = autoFixYamlIndentation(...); fixedContent = autoFixYamlStructure(fixedContent)
Normalized(content) == autoFixYamlStructure(autoFixYamlIndentation(content))

\* ---- the texts the Normalizer is run on ----
\* Longest text, in lines.
MaxNormLines == 3

\* Lines indented by nothing, a tab or two spaces: two with the same key and
\* a comment.
NormLines ==
    {indent \o body : indent \in {"", "\t", "  "}, body \in {"a: 1", "a: 2", "# c"}}

\* The ways a line ends: Unix, Windows and classic Mac OS.
LineEndings == {"\n", "\r\n", "\r"}

RECURSIVE NormTexts(_)
NormTexts(n) ==
    IF n = 1 THEN NormLines
    ELSE NormTexts(n - 1) \cup
         {text \o ending \o line : text \in NormTexts(n - 1),
                                   ending \in LineEndings, line \in NormLines}

\* call: the text handed over; result: what the Normalizer returned for call
\* and, once it was run again, for its own output.
InitNormalize ==
    /\ \E text \in NormTexts(MaxNormLines) : call = [text |-> text]
    /\ result = <<>>
    /\ callStatus = "called"
    /\ IdleInclude /\ IdleTraits /\ IdleMapper /\ IdleValidate

\* convertRamlToOas: the two passes over the resolved text
Normalize ==
    /\ callStatus = "called"
    /\ result' = <<Normalized(call.text)>>
    /\ callStatus' = "normalized"
    /\ UNCHANGED <<call, includeVars, traitVars, mapperVars, validateVars>>

\* The two passes over their own output.
NormalizeAgain ==
    /\ callStatus = "normalized"
    /\ result' = Append(result, Normalized(result[1]))
    /\ callStatus' = "renormalized"
    /\ UNCHANGED <<call, includeVars, traitVars, mapperVars, validateVars>>

NextNormalize == Normalize \/ NormalizeAgain

SpecNormalize == InitNormalize /\ [][NextNormalize]_vars

\* C17: for a text indented by tabs and even numbers of spaces, the
\* indentation pass followed by the duplicate-key pass, applied to its own
\* output, returns that output unchanged.
C17_NormalizerIdempotent ==
    callStatus = "renormalized" => result[2] = result[1]

(***************************************************************************)
(* BULK $ref INLINING: flattenOas and its closure resolveRefs. The files   *)
(* are held as the documents they parse to. The recursion of resolveRefs   *)
(* is run on an explicit call stack: a frame is one call, with its         *)
(* arguments obj and currentPath and the values returned to it so far.     *)
(***************************************************************************)
\* Frames the engine's call stack holds before it raises RangeError.
MaxFrames == 12

\* files[resolvedPath], parsed
ParsedAt(fileSet, path) ==
    IF path \in OwnKeys(fileSet) THEN Some(Get(fileSet, path)) ELSE None

\* currentDir + filePath for ./ and ../, filePath otherwise, normalized
RefPath(filePath, currentPath) ==
    LET currentDir == SubSeq(currentPath, 1, LastIndexOf(currentPath, "/"))
        resolvedPath == IF StartsWith(filePath, "./") \/ StartsWith(filePath, "../")
                        THEN currentDir \o filePath ELSE filePath
    IN  Join(NormalizeParts(StrSplit(resolvedPath, "/"), <<>>), "/")

\* for (const part of pathParts) target = target?.[part], over objects
RECURSIVE Navigate(_, _)
Navigate(target, pathParts) ==
    IF pathParts = <<>> THEN target
    ELSE IF target.t # "object" THEN Undefined
    ELSE Navigate(Get(target.entries, Head(pathParts)), Tail(pathParts))

\* obj.$ref && typeof obj.$ref === 'string' && !ref.startsWith('#/'), with
\* a file path before the '#'
IsExternalRef(obj) ==
    /\ obj.t = "object"
    /\ Get(obj.entries, "$ref").t = "string"
    /\ Get(obj.entries, "$ref").s # ""
    /\ ~StartsWith(Get(obj.entries, "$ref").s, "#/")
    /\ StrSplit(Get(obj.entries, "$ref").s, "#")[1] # ""

\* obj.$ref && typeof obj.$ref === 'string'
HasRef(obj) ==
    /\ obj.t = "object"
    /\ Get(obj.entries, "$ref").t = "string"
    /\ Get(obj.entries, "$ref").s # ""

\* The file an external ref names, from the file the ref is written in.
RefFile(obj, currentPath) ==
    RefPath(StrSplit(Get(obj.entries, "$ref").s, "#")[1], currentPath)

\* The node an external ref names in its file.
RefTarget(obj, currentPath, fileSet) ==
    LET split == StrSplit(Get(obj.entries, "$ref").s, "#")
        refObj == ParsedAt(fileSet, RefFile(obj, currentPath))[1]
    IN  IF Len(split) >= 2 /\ split[2] # ""
        THEN Navigate(refObj, SelectSeq(StrSplit(split[2], "/"), LAMBDA part : part # ""))
        ELSE refObj

\* resolveRefs(obj, currentPath), entered
RefCallOf(obj, currentPath) == [obj |-> obj, currentPath |-> currentPath, got |-> <<>>]

\* The calls of resolveRefs a call makes, in order: one for each item of an
\* array, one for the node an external ref names when its file is there,
\* one for each property of any other object.
RefCalls(frame, fileSet) ==
    LET obj == frame.obj
    IN  IF obj.t = "array"
        THEN [i \in 1..Len(obj.items) |-> RefCallOf(obj.items[i], frame.currentPath)]
        ELSE IF obj.t # "object" THEN <<>>
        ELSE IF HasRef(obj)
        THEN IF IsExternalRef(obj) /\ ParsedAt(fileSet, RefFile(obj, frame.currentPath)) # None
             THEN <<RefCallOf(RefTarget(obj, frame.currentPath, fileSet),
                              RefFile(obj, frame.currentPath))>>
             ELSE <<>>
        ELSE [i \in 1..Len(obj.entries) |-> RefCallOf(obj.entries[i].v, frame.currentPath)]

\* What a call of resolveRefs that has made all its calls returns.
RefReturns(frame, fileSet) ==
    LET obj == frame.obj
    IN  IF obj.t = "array" THEN Array(frame.got)
        ELSE IF obj.t # "object" THEN obj
        ELSE IF HasRef(obj)
        THEN IF RefCalls(frame, fileSet) # <<>> THEN frame.got[1] ELSE obj
        ELSE Object(Made(Filled(obj.entries, frame.got, 1)))

\* ---- the file sets flattenOas is called with ----
RefTo(ref) == Object(<<Prop("$ref", String(ref))>>)

StringSchema == Object(<<Prop("type", String("string"))>>)

\* A schema, a ref to a file (one of them missing), to a node of a file or
\* into the document itself.
RefNodes ==
    {StringSchema} \cup
    {RefTo(ref) : ref \in {"./a.yaml", "./b.yaml", "./c.yaml",
                           "a.yaml#/schema", "b.yaml#/x", "#/components/schemas/A"}}

\* A node, or a node under a property or in an array.
OasNodes ==
    RefNodes \cup {Object(<<Prop("x", node)>>) : node \in RefNodes}
             \cup {Array(<<node, StringSchema>>) : node \in RefNodes}

\* call: the files, the main file and the stack of the calls of
\* resolveRefs, the outermost first.
InitFlattenOas ==
    /\ \E schema \in OasNodes, other \in OasNodes, main \in {"a.yaml", "c.yaml"} :
          call = [files |-> <<Prop("a.yaml", Object(<<Prop("openapi", String("3.0.0")),
                                                       Prop("schema", schema)>>)),
                              Prop("b.yaml", other)>>,
                  main |-> main,
                  stack |-> <<>>]
    /\ result = Undefined
    /\ callStatus = "called"
    /\ IdleInclude /\ IdleTraits /\ IdleMapper /\ IdleValidate

TopRefCall == call.stack[Len(call.stack)]

RefCallDone == Len(TopRefCall.got) = Len(RefCalls(TopRefCall, call.files))

\* throw new Error(`Main OpenAPI file not found: ...`)
MainOasFileNotFound ==
    /\ callStatus = "called"
    /\ call.stack = <<>>
    /\ ParsedAt(call.files, call.main) = None
    /\ callStatus' = "thrown"
    /\ result' = String("Failed to flatten OpenAPI: Main OpenAPI file not found: " \o call.main)
    /\ UNCHANGED <<call, includeVars, traitVars, mapperVars, validateVars>>

\* const flattenedObj = resolveRefs(oasObj, mainOasFile)
ResolveRefs ==
    /\ callStatus = "called"
    /\ call.stack = <<>>
    /\ ParsedAt(call.files, call.main) # None
    /\ call' = [call EXCEPT !.stack = <<RefCallOf(ParsedAt(call.files, call.main)[1], call.main)>>]
    /\ UnchangedButCall

\* resolveRefs(item | refObj | value, ...): the next call of the call on top
ResolveRefsCall ==
    /\ callStatus = "called"
    /\ call.stack # <<>>
    /\ ~RefCallDone
    /\ Len(call.stack) < MaxFrames
    /\ call' = [call EXCEPT !.stack =
                   Append(@, RefCalls(TopRefCall, call.files)[Len(TopRefCall.got) + 1])]
    /\ UnchangedButCall

\* return, to a call of resolveRefs
ResolveRefsReturn ==
    /\ callStatus = "called"
    /\ Len(call.stack) > 1
    /\ RefCallDone
    /\ call' = [call EXCEPT !.stack =
                   [SubSeq(@, 1, Len(@) - 1) EXCEPT
                       ![Len(@) - 1].got = Append(@, RefReturns(TopRefCall, call.files))]]
    /\ UnchangedButCall

\* return flattenedYaml: the document the outermost call returned
FlattenOasReturns ==
    /\ callStatus = "called"
    /\ Len(call.stack) = 1
    /\ RefCallDone
    /\ result' = RefReturns(TopRefCall, call.files)
    /\ callStatus' = "returned"
    /\ call' = [call EXCEPT !.stack = <<>>]
    /\ UNCHANGED <<includeVars, traitVars, mapperVars, validateVars>>

\* The engine's call stack is exhausted: RangeError, caught by flattenOas
\* and thrown again.
FlattenOasRangeError ==
    /\ callStatus = "called"
    /\ call.stack # <<>>
    /\ ~RefCallDone
    /\ Len(call.stack) = MaxFrames
    /\ result' = String("Failed to flatten OpenAPI: Maximum call stack size exceeded")
    /\ callStatus' = "thrown"
    /\ call' = [call EXCEPT !.stack = <<>>]
    /\ UNCHANGED <<includeVars, traitVars, mapperVars, validateVars>>

NextFlattenOas ==
    \/ MainOasFileNotFound
    \/ ResolveRefs
    \/ ResolveRefsCall
    \/ ResolveRefsReturn
    \/ FlattenOasReturns
    \/ FlattenOasRangeError

SpecFlattenOas == InitFlattenOas /\ [][NextFlattenOas]_vars

\* ---- what the claim about cyclic refs speaks of ----
\* The files the refs written anywhere in a node name, from the file path.
RECURSIVE FilesNamed(_, _)
FilesNamed(node, path) ==
    IF node.t = "array" THEN UNION {FilesNamed(node.items[i], path) : i \in 1..Len(node.items)}
    ELSE IF node.t # "object" THEN {}
    ELSE IF IsExternalRef(node) THEN {RefFile(node, path)}
    ELSE UNION {FilesNamed(node.entries[i].v, path) : i \in 1..Len(node.entries)}

\* File from references file to.
FileReferences(from, to) ==
    /\ ParsedAt(call.files, from) # None
    /\ to \in FilesNamed(ParsedAt(call.files, from)[1], from)

\* The main file references itself, or references b.yaml, which references
\* it or itself.
RefsFormCycle ==
    /\ call.main = "a.yaml"
    /\ \/ FileReferences("a.yaml", "a.yaml")
       \/ /\ FileReferences("a.yaml", "b.yaml")
          /\ FileReferences("b.yaml", "a.yaml") \/ FileReferences("b.yaml", "b.yaml")

\* C18: when the external refs form a cycle, flattenOas returns a document
\* (the revisited ref short-circuited) and does not resolve the same ref
\* again and again until the call fails.
C18_CyclicRefsReturnDocument ==
    (RefsFormCycle /\ callStatus # "called") => callStatus = "returned"

\* Refs that form no cycle are inlined: the call returns a document.
AcyclicRefsReturnDocument ==
    (call.main = "a.yaml" /\ ~RefsFormCycle /\ callStatus # "called") => callStatus = "returned"

(***************************************************************************)
(* TWO INVOCATIONS AT ONCE. Each invocation is a compile (convertRamlToOas *)
(* as far as the text handed to the parser) or a validate                  *)
(* (validatePayload); the two run in separate threads of control, their    *)
(* steps interleaved in any order. What they share is the debug log        *)
(* logs/converter-debug.log, which clearLogFile and logToFile write and    *)
(* nothing reads; everything else an invocation touches is a local of its  *)
(* call. A call holds the FileSet it was given, not a copy.                *)
(***************************************************************************)
Invocations == {1, 2}

\* The log after clearLogFile by invocation i: its header, and no line yet.
\* Of the lines of the log, the invocations that wrote them are kept.
ClearedLog(i) == [owner |-> i, writers |-> {}]

\* The log after logToFile of invocation i appended a line.
AppendedLog(log, i) == [log EXCEPT !.writers = @ \cup {i}]

\* clearLogFile and logToFile catch what the file system throws: the log is
\* written or left as it was.
LogAfter(written, log) == {written, log}

\* The text a call of convertRamlToOas works on, as if it were kept in one
\* place for all calls
ContentOfFirst(inv, i) == inv[1].text

\* let resolvedContent = mainContent: a local of the call
ContentOf(inv, i) == inv[i].text

NoResult == [kind |-> "none"]
TextResult(text) == [kind |-> "text", text |-> text]
ThrownResult == [kind |-> "thrown"]

\* convertRamlToOas run alone from the given pass on: the passes over the
\* includes, then the Normalizer.
RECURSIVE CompiledFrom(_, _, _)
CompiledFrom(text, fileSet, passes) ==
    IF Contains(text, "!include") /\ passes < maxIterations
    THEN LET pass == resolveIncludes(text, fileSet, entryFile, {entryFile})
         IN  IF pass.threw THEN ThrownResult
             ELSE CompiledFrom(pass.text, fileSet, passes + 1)
    ELSE TextResult(Normalized(text))

\* The invocation run alone on what it was given.
Alone(given) ==
    IF given.kind = "compile"
    THEN CompiledFrom(Get(given.files, entryFile), given.files, 0)
    ELSE validatePayload(given.request.files, given.request.mainOasFile,
                         given.request.mainContent, given.request.options)

\* ---- what the two invocations are given ----
CompileInputs ==
    {[kind |-> "compile", files |-> <<Prop(entryFile, text), Included>>] :
        text \in {"x\r\n\ta: 1\n\ta: 2", KeyInclude("  ", "k", "t.raml"),
                  "- !include t.raml", KeyInclude("", "k", "m.raml")}}

ValidateInputs ==
    {[kind |-> "validate", request |-> given] :
        given \in {Call(Some(OrdersDocument(None)),
                          Options(Undefined, "/orders", "GET", "request", Undefined)),
                     CallIn(OtherFiles, "api/openapi.yaml",
                            Some(UsersDocument(RefSchema("./types.yaml#/Age"))),
                            Options(String("bob"), "/users", "POST", "request", Undefined)),
                     Call(Some(UsersDocument(TypeSchema("integer"))),
                          Options(Num(3, 0), "/users", "POST", "request", Undefined))}}

Invocation(given) ==
    [given |-> given,
     files |-> IF given.kind = "compile" THEN given.files ELSE given.request.files,
     text |-> IF given.kind = "compile" THEN Get(given.files, entryFile) ELSE "",
     iteration |-> 0,
     status |-> "called"]

\* call: the two invocations and the log they share; result: what each
\* returned.
InitInvocations ==
    /\ \E first \in CompileInputs \cup ValidateInputs,
          second \in CompileInputs \cup ValidateInputs :
          call = [inv |-> <<Invocation(first), Invocation(second)>>,
                  log |-> [owner |-> 0, writers |-> {}]]
    /\ result = <<NoResult, NoResult>>
    /\ callStatus = "called"
    /\ IdleInclude /\ IdleTraits /\ IdleMapper /\ IdleValidate

UnchangedButInvocations ==
    UNCHANGED <<includeVars, traitVars, mapperVars, validateVars>>

Compiling(i) == call.inv[i].given.kind = "compile" /\ call.inv[i].status = "compiling"

InLoop(i) ==
    Contains(ContentOf(call.inv, i), "!include") /\ call.inv[i].iteration < maxIterations

PassOf(i) == resolveIncludes(ContentOf(call.inv, i), call.inv[i].files, entryFile, {entryFile})

\* Both calls are over.
BothSettled(inv) == \A i \in Invocations : inv[i].status \in {"returned", "thrown"}

Settling(inv) == IF BothSettled(inv) THEN "settled" ELSE "called"

\* convertRamlToOas: clearLogFile(), then the first lines of the log
CompileStarts ==
    \E i \in Invocations :
        /\ call.inv[i].given.kind = "compile" /\ call.inv[i].status = "called"
        /\ \E log \in LogAfter(AppendedLog(ClearedLog(i), i), call.log) :
              call' = [call EXCEPT !.inv[i].status = "compiling", !.log = log]
        /\ UNCHANGED <<result, callStatus>>
        /\ UnchangedButInvocations

\* convertRamlToOas: one pass of the loop over the includes, which logs
CompilePasses ==
    \E i \in Invocations :
        /\ Compiling(i) /\ InLoop(i) /\ ~PassOf(i).threw
        /\ \E log \in LogAfter(AppendedLog(call.log, i), call.log) :
              call' = [call EXCEPT !.inv[i].text = PassOf(i).text,
                                   !.inv[i].iteration = @ + 1,
                                   !.log = log]
        /\ UNCHANGED <<result, callStatus>>
        /\ UnchangedButInvocations

\* convertRamlToOas: a pass throws, and the call with it
CompileThrows ==
    \E i \in Invocations :
        /\ Compiling(i) /\ InLoop(i) /\ PassOf(i).threw
        /\ call' = [call EXCEPT !.inv[i].status = "thrown"]
        /\ result' = [result EXCEPT ![i] = ThrownResult]
        /\ callStatus' = Settling(call'.inv)
        /\ UnchangedButInvocations

\* convertRamlToOas: after the loop, autoFixYamlIndentation and
\* autoFixYamlStructure, which logs
CompileNormalizes ==
    \E i \in Invocations :
        /\ Compiling(i) /\ ~InLoop(i)
        /\ \E log \in LogAfter(AppendedLog(call.log, i), call.log) :
              call' = [call EXCEPT !.inv[i].status = "returned", !.log = log]
        /\ result' = [result EXCEPT ![i] = TextResult(Normalized(ContentOf(call.inv, i)))]
        /\ callStatus' = Settling(call'.inv)
        /\ UnchangedButInvocations

\* validatePayload, which writes no log
Validates ==
    \E i \in Invocations :
        /\ call.inv[i].given.kind = "validate" /\ call.inv[i].status = "called"
        /\ call' = [call EXCEPT !.inv[i].status = "returned"]
        /\ result' = [result EXCEPT ![i] =
                         LET given == call.inv[i].given.request
                         IN  validatePayload(call.inv[i].files, given.mainOasFile,
                                             given.mainContent, given.options)]
        /\ callStatus' = Settling(call'.inv)
        /\ UnchangedButInvocations

NextInvocations ==
    CompileStarts \/ CompilePasses \/ CompileThrows \/ CompileNormalizes \/ Validates

SpecInvocations == InitInvocations /\ [][NextInvocations]_vars

\* C19: however the steps of two invocations interleave, each invocation
\* that is over has the result it has when run alone on what it was given,
\* and the FileSet it was given is as it was handed over.
C19_InvocationsDoNotInterfere ==
    \A i \in Invocations :
        /\ call.inv[i].status \in {"returned", "thrown"} => result[i] = Alone(call.inv[i].given)
        /\ call.inv[i].files = (IF call.inv[i].given.kind = "compile"
                                THEN call.inv[i].given.files
                                ELSE call.inv[i].given.request.files)

\* C19: two compiles of different texts are over; the second cleared the
\* log the first had started, and the first made a pass after the second
\* had begun.
C19_Witness ==
    /\ callStatus = "settled"
    /\ call.inv[1].given.kind = "compile" /\ call.inv[2].given.kind = "compile"
    /\ call.inv[1].given # call.inv[2].given
    /\ call.inv[1].iteration = maxIterations
    /\ call.log.owner = 2 /\ call.log.writers = {1, 2}
    /\ result[1].kind = "text" /\ result[2].kind = "text"

(***************************************************************************)
(* What the claims about validateParameters speak of.                      *)
(***************************************************************************)
\* The call is a request without a body against an operation of /orders
\* that declares parameters.
IsParameterCall ==
    /\ Settled
    /\ request.mainContent # None
    /\ request.options.type = "request"
    /\ StrSplit(request.options.path, "?")[1] = "/orders"
    /\ toLowerCase(request.options.method) \in {"get", "delete"}
    /\ OrdersOperation.parameters # None
    /\ OrdersOperation.parameters[1] # <<>>

DeclaredParams == OrdersOperation.parameters[1]

\* The values the caller supplied: the query string, the payload's
\* properties and the headers, as validatePayload merges them.
SuppliedParams ==
    LET path == request.options.path
        queryParams == IF StrIncludes(path, "?")
                       THEN ParseQuery(StrSplit(StrSplit(path, "?")[2], "&"), <<>>).params
                       ELSE <<>>
        payload == request.options.payload
        headers == request.options.headers
    IN  Assign(Assign(queryParams,
                      IF Truthy(payload) /\ TypeOf(payload) = "object"
                      THEN EntriesOf(payload) ELSE <<>>),
               IF Truthy(headers) /\ TypeOf(headers) = "object" THEN EntriesOf(headers)
               ELSE <<>>)

\* The caller supplied a value under the parameter's name: for a header
\* under any spelling of its case.
IsSupplied(paramDef) ==
    IF paramDef.in = "header"
    THEN \E key \in OwnKeys(SuppliedParams) : toLowerCase(key) = toLowerCase(paramDef.name)
    ELSE paramDef.name \in OwnKeys(SuppliedParams)

\* What validating the one parameter adds to an empty list.
ParameterAlone(paramDef) ==
    ValidateParameter(paramDef, SuppliedParams, NoErrors,
                      WithFiles(request.mainContent[1], request.files, request.mainOasFile))

\* For the parameters asked about: one without a value has the one
\* "missing" error when it is required and none when it is optional, and
\* every other parameter has the errors of its own validation.
MissingParametersReported(asked) ==
    \A i \in 1..Len(DeclaredParams) :
        (asked[i] /\ ~IsSupplied(DeclaredParams[i]))
        => /\ outcome.kind = "returned"
           /\ ErrorsAt(DeclaredParams[i].name)
              = (IF DeclaredParams[i].required
                 THEN <<FieldError(DeclaredParams[i].name, "missingParameter")>> ELSE <<>>)
           /\ \A j \in 1..Len(DeclaredParams) :
                 j # i => ErrorsAt(DeclaredParams[j].name)
                          = ParameterAlone(DeclaredParams[j]).errors

\* C21: a declared parameter for which no value is found adds exactly one
\* error, that it is missing, when it is required, and no error when it is
\* optional; nothing else is checked for it, and the other declared
\* parameters are processed all the same.
C21_MissingParameterOneError ==
    IsParameterCall => MissingParametersReported([i \in 1..Len(DeclaredParams) |-> TRUE])

\* The same of the parameters whose name no plain object inherits.
MissingParameterOneErrorOwnNames ==
    IsParameterCall =>
        MissingParametersReported([i \in 1..Len(DeclaredParams) |->
                                      DeclaredParams[i].name \notin ObjectPrototypeKeys])

\* A required parameter without a value was reported missing, and an
\* optional one beside a supplied one was passed over.
MissingParameterBesideSupplied ==
    /\ IsParameterCall /\ outcome.kind = "returned"
    /\ \/ outcome.errors = <<FieldError("id", "missingParameter")>>
       \/ /\ Len(DeclaredParams) = 2 /\ ~IsSupplied(DeclaredParams[1])
          /\ outcome.errors = <<FieldError("flag", "notABoolean")>>

\* The schema of a declared parameter, its reference followed.
ParamSchema(paramDef) ==
    Resolved(IF paramDef.schema # None THEN paramDef.schema[1] ELSE EmptySchema)

\* The text supplied for a parameter that is not a header, if text was.
HasText(paramDef) ==
    /\ paramDef.in # "header"
    /\ paramDef.name \in OwnKeys(SuppliedParams)
    /\ Get(SuppliedParams, paramDef.name).t = "string"

TextOf(paramDef) == Get(SuppliedParams, paramDef.name).s

\* The text is a numeric literal: it is not blank and denotes a number.
IsNumericText(text) == Trim(text) # "" /\ ~ToNumber(text).nan

\* The errors of the number the text denotes, validated by itself.
NumberErrors(paramDef) ==
    validateAgainstSchema([t |-> "number", num |-> ToNumber(TextOf(paramDef)).num],
                          ParamSchema(paramDef), paramDef.name, NoErrors,
                          WithFiles(request.mainContent[1], request.files, request.mainOasFile),
                          0).errors

\* For the parameters asked about that were given text: under integer or
\* number, text that is no numeric literal has the one type error and a
\* numeric literal the errors of its number; under boolean, true and false
\* have no error and any other text the one type error.
TextCoerced(asked) ==
    \A i \in 1..Len(DeclaredParams) :
        LET paramDef == DeclaredParams[i]
        IN  (asked[i] /\ HasText(paramDef) /\ ~(paramDef.required /\ TextOf(paramDef) = ""))
            => /\ outcome.kind = "returned"
               /\ ParamSchema(paramDef).type \in {"integer", "number"}
                  => ErrorsAt(paramDef.name)
                     = (IF IsNumericText(TextOf(paramDef)) THEN NumberErrors(paramDef)
                        ELSE <<FieldError(paramDef.name, "notANumber")>>)
               /\ ParamSchema(paramDef).type = "boolean"
                  => ErrorsAt(paramDef.name)
                     = (IF TextOf(paramDef) \in {"true", "false"} THEN <<>>
                        ELSE <<FieldError(paramDef.name, "notABoolean")>>)

\* C22: text given for a parameter of type integer or number adds exactly
\* one type error and no other when it is not a numeric literal, the empty
\* string of an optional parameter included, and is validated as the number
\* it denotes when it is; for type boolean only "true" and "false" are
\* accepted and any other text adds exactly one type error.
C22_TextCoercedByType ==
    IsParameterCall => TextCoerced([i \in 1..Len(DeclaredParams) |-> TRUE])

\* The same of the parameters given text that is not blank.
TextCoercedButBlank ==
    IsParameterCall =>
        TextCoerced([i \in 1..Len(DeclaredParams) |->
                        HasText(DeclaredParams[i]) => Trim(TextOf(DeclaredParams[i])) # ""])

\* Text that is no number and text that is no boolean were each reported
\* with one type error; a number below the minimum was validated as number.
TextCoercedCases ==
    /\ IsParameterCall /\ outcome.kind = "returned"
    /\ outcome.errors \in {<<FieldError("id", "notANumber")>>,
                           <<FieldError("flag", "notABoolean")>>,
                           <<FieldError("id", "minimum")>>}
    /\ \A i \in 1..Len(DeclaredParams) :
           HasText(DeclaredParams[i]) => TextOf(DeclaredParams[i]) # ""

(***************************************************************************)
(* What the claim about the path lookup speaks of.                         *)
(***************************************************************************)
\* A segment of a template that is one {name}.
IsNameSegment(segment) ==
    /\ Len(segment) >= 3
    /\ CharAt(segment, 1) = "{" /\ CharAt(segment, Len(segment)) = "}"
    /\ \A i \in 2..(Len(segment) - 1) : CharAt(segment, i) \notin {"{", "}"}

\* The key is a template and the path matches it whole: segment by segment,
\* a {name} against a segment that is not empty, anything else against
\* itself.
MatchesTemplate(key, path) ==
    LET k == StrSplit(key, "/")
        p == StrSplit(path, "/")
    IN  /\ Len(k) = Len(p)
        /\ \E i \in 1..Len(k) : IsNameSegment(k[i])
        /\ \A i \in 1..Len(k) :
              IF IsNameSegment(k[i]) THEN p[i] # "" ELSE k[i] = p[i]

\* The path parameters of a template the path matches: for every {name},
\* in order, the segment of the path at its place.
SegmentsByName(key, path) ==
    LET k == StrSplit(key, "/")
        p == StrSplit(path, "/")
        named == SelectSeq([i \in 1..Len(k) |-> i], LAMBDA i : IsNameSegment(k[i]))
    IN  [n \in 1..Len(named) |->
            Prop(SubSeq(k[named[n]], 2, Len(k[named[n]]) - 1), String(p[named[n]]))]

\* The lookup as stated: the key itself, else the first template that
\* matches, else nothing.
StatedLookup(paths, path) ==
    LET matching == {i \in 1..Len(paths) : MatchesTemplate(paths[i].k, path)}
        first == CHOOSE i \in matching : \A j \in matching : i <= j
    IN  IF path \in OwnKeys(paths)
        THEN [pathDef |-> Some(Get(paths, path)), pathParams |-> <<>>]
        ELSE IF matching # {}
        THEN [pathDef |-> Some(paths[first].v),
              pathParams |-> SegmentsByName(paths[first].k, path)]
        ELSE [pathDef |-> None, pathParams |-> <<>>]

\* The lookup validatePayload made is the lookup as stated, and a path that
\* is not found is reported so.
LookupAsStated ==
    /\ FindPath(request.mainContent[1].paths, CleanPath)
       = StatedLookup(request.mainContent[1].paths, CleanPath)
    /\ (/\ outcome.kind = "returned"
        /\ StatedLookup(request.mainContent[1].paths, CleanPath).pathDef = None)
       => outcome = Returned(<<ListingError("path", "pathNotFound",
                                            KeysOf(request.mainContent[1].paths))>>)

\* C23: a key equal to the request path is taken before any template;
\* otherwise the first declared template whose {name} segments match the
\* whole path is taken, with the path's segments as the values of its
\* names; a path that matches neither is reported as not found.
C23_PathLookup ==
    (Settled /\ request.mainContent # None) => LookupAsStated

\* The same of the request paths that name no member every plain object
\* inherits and that no key with a dot in it matches as a pattern.
PathLookupOfPlainKeys ==
    (/\ Settled /\ request.mainContent # None
     /\ CleanPath \notin ObjectPrototypeKeys
     /\ \A i \in 1..Len(request.mainContent[1].paths) :
           StrIncludes(request.mainContent[1].paths[i].k, ".")
           => RegexMatch(TemplateTokens(request.mainContent[1].paths[i].k, 1), CleanPath) = None
              \/ request.mainContent[1].paths[i].k = CleanPath)
    => LookupAsStated

\* A call whose path is a key declared after a template it also matches,
\* answered from the key: no path parameter was asked for.
KeyTakenBeforeTemplate ==
    /\ Settled /\ request.mainContent = Some(ItemsDocument)
    /\ CleanPath = "/items/new" /\ request.options.method = "GET"
    /\ MatchesTemplate("/items/{id}", CleanPath)
    /\ outcome = Returned(<<>>)

\* A call whose path matches a key with a dot in it where the dot stands,
\* without being that key.
DotOfKeyMatchesAnyCharacter ==
    /\ Settled /\ request.mainContent = Some(ItemsDocument)
    /\ CleanPath = "/v1x0/items" /\ request.options.method = "GET"
    /\ outcome = Returned(<<>>)

(***************************************************************************)
(* What the claim about the order of an operation's parameters speaks of.  *)
(***************************************************************************)
\* The (name, in) pairs of the entries of an insertion-ordered object.
NamedIn(decls, in) == [i \in 1..Len(decls) |-> <<decls[i].name, in>>]

\* The (name, in) pairs an operation is to carry, in order: the path
\* parameters of the resource, the query parameters, the URI parameters the
\* method declares beyond those of the resource, the headers.
StatedParameterOrder(fullPath, resource, methodData) ==
    LET ofResource == PathParams(fullPath, resource)
    IN  NamedIn(ofResource, "path")
        \o NamedIn(methodData.queryParameters, "query")
        \o NamedIn(SelectSeq(methodData.uriParameters,
                             LAMBDA d : ~HasKey(ofResource, d.name)), "path")
        \o NamedIn(methodData.headers, "header")

\* C24: the parameters of every operation of the compiled document are, in
\* this order, the path parameters of its resource, its query parameters,
\* the URI parameters its method declares and its headers, and no two of
\* them have the same name and the same in.
C24_ParameterOrder ==
    mapStatus = "mapped" =>
        \A o \in Operations :
            LET params == oasPaths[o[1]][o[2]].parameters
                resource == ramlTree[Emitter(o[1], o[2])]
            IN  /\ [i \in 1..Len(params) |-> <<params[i].name, params[i].in>>]
                   = StatedParameterOrder(o[1], resource, resource.methods[o[2]])
                /\ \A i, j \in 1..Len(params) :
                      (params[i].name = params[j].name /\ params[i].in = params[j].in)
                      => i = j

\* A mapped resource /{a} whose GET declares a query parameter a, the URI
\* parameters a and d and a header h: the operation carries path a, query
\* a, path d and header h, the URI parameter a having been skipped.
C24_Witness ==
    /\ mapStatus = "mapped"
    /\ \E n \in DOMAIN ramlTree :
        /\ ramlTree[n].parent = 0
        /\ ramlTree[n].key = <<"/", "{", "a", "}">>
        /\ POST \in DOMAIN ramlTree[n].methods
        /\ LET params == oasPaths[ramlTree[n].key][GET].parameters
           IN  [i \in 1..Len(params) |-> <<params[i].name, params[i].in>>]
               = << <<(<<"a">>), "path">>, <<(<<"a">>), "query">>,
                    <<(<<"d">>), "path">>, <<(<<"h">>), "header">> >>

(***************************************************************************)
(* SCHEMAS OF THE STRUCTURAL MAPPER: convertDataType and convertBodySchema.*)
(* A type of the source is a type expression (a text), a list of type      *)
(* names, or a fragment: an object with the keys type, required,           *)
(* deprecated, properties, items, example and schema, each present or not. *)
(* The fragments declare no description, enum, pattern, bounds or default, *)
(* which convertDataType copies as they are.                               *)
(***************************************************************************)
TypeText(s) == [t |-> "text", s |-> s]
TypeList(names) == [t |-> "list", names |-> names]
EmptyFragment ==
    [t |-> "fragment", type |-> None, required |-> None, deprecated |-> None,
     properties |-> None, items |-> None, example |-> None, schema |-> None]
TypeFragment(type, required, deprecated, properties, items) ==
    [EmptyFragment EXCEPT !.type = type, !.required = required, !.deprecated = deprecated,
                          !.properties = properties, !.items = items]

\* A schema of the compiled document: each key present or not.
EmptyNode ==
    [type |-> None, oneOf |-> None, deprecated |-> None, nullable |-> None,
     additionalProperties |-> None, properties |-> None, required |-> None,
     items |-> None, minLength |-> None, maxLength |-> None, pattern |-> None,
     minItems |-> None, maxItems |-> None]

\* { type, deprecated: false, nullable: true }
FlaggedNode(type) ==
    [EmptyNode EXCEPT !.type = Some(type), !.deprecated = Some(FALSE), !.nullable = Some(TRUE)]

\* "Add string defaults"
StringDefaults(node) ==
    IF node.type = Some("string")
    THEN [node EXCEPT !.minLength = Some(0), !.maxLength = Some(255), !.pattern = Some("^.*$")]
    ELSE node

\* "Add additionalProperties for objects"
ObjectDefaults(node) ==
    IF node.type = Some("object") THEN [node EXCEPT !.additionalProperties = Some(FALSE)]
    ELSE node

\* convertDataType: the schema of one member t of a union.
UnionMember(t) ==
    IF EndsWith(t, "[]")
    THEN [FlaggedNode("array") EXCEPT
            !.items = Some(ObjectDefaults(StringDefaults(FlaggedNode(
                          mapRamlTypeToOasType(TrimSpace(SubSeq(t, 1, Len(t) - 2))))))),
            !.minItems = Some(0), !.maxItems = Some(100)]
    ELSE ObjectDefaults(StringDefaults(FlaggedNode(mapRamlTypeToOasType(t))))

\* types.map(...) over typeData.split('|').map(t => t.trim())
UnionMembers(text) ==
    [i \in 1..Len(StrSplit(text, "|")) |-> UnionMember(TrimSpace(StrSplit(text, "|")[i]))]

\* convertDataType of a type expression that is no union.
TextSchema(mappedType) ==
    IF mappedType = "array"
    THEN [FlaggedNode("array") EXCEPT
            !.minItems = Some(0), !.maxItems = Some(100),
            !.items = Some(StringDefaults(FlaggedNode("string")))]
    ELSE ObjectDefaults(StringDefaults(FlaggedNode(mappedType)))

\* typeData.type is there and is not the empty text
HasType(typeData) == typeData.type # None /\ typeData.type[1] # TypeText("")

\* typeof typeData.type === 'string' && typeData.type.includes('|')
IsUnion(typeData) ==
    HasType(typeData) /\ typeData.type[1].t = "text" /\ StrIncludes(typeData.type[1].s, "|")

\* const baseType = Array.isArray(typeData.type) ? typeData.type[0] : typeData.type
BaseType(typeData) ==
    IF typeData.type[1].t = "list" THEN typeData.type[1].names[1] ELSE typeData.type[1]

\* typeof baseType === 'object': "expanded library type"
IsExpanded(typeData) ==
    HasType(typeData) /\ ~IsUnion(typeData) /\ BaseType(typeData).t # "text"

\* The names of the properties whose fragment says required.
RequiredNames(properties) ==
    LET required == SelectSeq(properties,
                              LAMBDA p : p.v.t = "fragment" /\ p.v.required = Some(TRUE))
    IN  [i \in 1..Len(required) |-> required[i].k]

\* convertDataType, from "const schema: any = {}" on, of a fragment whose
\* properties and items were converted to properties and items.
FragmentSchema(typeData, properties, items) ==
    LET typed == IF IsUnion(typeData)
                 THEN [EmptyNode EXCEPT !.oneOf = Some(UnionMembers(typeData.type[1].s))]
                 ELSE IF HasType(typeData)
                 THEN [EmptyNode EXCEPT
                         !.type = Some(mapRamlTypeToOasType(BaseType(typeData).s))]
                 ELSE [EmptyNode EXCEPT !.type = Some("object")]
        flagged == [typed EXCEPT
                      !.deprecated = Some(typeData.deprecated = Some(TRUE)),
                      !.nullable = Some(typeData.required \in {None, Some(FALSE)}),
                      !.properties = properties,
                      !.required = IF typeData.properties = None
                                      \/ RequiredNames(typeData.properties[1]) = <<>>
                                   THEN None
                                   ELSE Some(RequiredNames(typeData.properties[1])),
                      !.items = items]
        shaped == ObjectDefaults(StringDefaults(flagged))
    IN  IF shaped.type = Some("array")
        THEN [shaped EXCEPT
                !.minItems = Some(0), !.maxItems = Some(100),
                !.items = IF items = None THEN Some(FlaggedNode("string")) ELSE items]
        ELSE shaped

\* convertDataType(typeData)
RECURSIVE convertDataType(_)
convertDataType(typeData) ==
    IF typeData.t = "text"
    THEN IF StrIncludes(typeData.s, "|")
         THEN [EmptyNode EXCEPT !.oneOf = Some(UnionMembers(typeData.s))]
         ELSE TextSchema(mapRamlTypeToOasType(typeData.s))
    ELSE IF typeData.t = "list"
    \* an array has none of the keys of a fragment
    THEN FragmentSchema(EmptyFragment, None, None)
    ELSE IF IsExpanded(typeData)
    THEN convertDataType(BaseType(typeData))
    ELSE FragmentSchema(
            typeData,
            IF typeData.properties = None THEN None
            ELSE Some([i \in 1..Len(typeData.properties[1]) |->
                          Prop(typeData.properties[1][i].k,
                               convertDataType(typeData.properties[1][i].v))]),
            IF typeData.items = None THEN None
            ELSE Some(convertDataType(typeData.items[1])))

\* { type: 'object' }
BareObject == [EmptyNode EXCEPT !.type = Some("object")]

\* convertBodySchema(body, includeExampleInSchema) with
\* includeExampleInSchema false, as convertMethod calls it, for a body that
\* is not null. body.schema is held as the schema it parses to, or as None
\* when it is a text that does not parse.
convertBodySchema(body) ==
    IF body.t = "text" THEN [EmptyNode EXCEPT !.type = Some(mapRamlTypeToOasType(body.s))]
    ELSE IF HasType(body)
    THEN IF body.type[1].t = "text" THEN convertDataType(body)
         ELSE convertDataType(body.type[1])
    ELSE IF body.schema # None
    THEN IF body.schema[1] = None THEN BareObject ELSE body.schema[1][1]
    ELSE IF body.properties # None THEN convertDataType(body)
    ELSE BareObject

\* ---- inputs ----
\* The type User of the document's types section.
UserType ==
    TypeFragment(Some(TypeText("object")), None, None,
                 Some(<<Prop("name", TypeFragment(Some(TypeText("string")),
                                                  Some(TRUE), None, None, None)),
                        Prop("age", TypeText("integer"))>>),
                 None)

TypeExpressions ==
    {TypeText("object"), TypeText("Object"), TypeText("string"), TypeText("array"),
     TypeText("User"), TypeText("object | string[]"), TypeText("User[] | object[]")}

DeclaredTypes ==
    {None, Some(TypeText("")), Some(TypeList(<<TypeText("object")>>)), Some(UserType)}
    \cup {Some(e) : e \in TypeExpressions}

PropertySets ==
    {None,
     Some(<<>>),
     Some(<<Prop("id", TypeText("integer")),
            Prop("owner", TypeFragment(Some(TypeText("User")), Some(TRUE), None, None, None))>>),
     Some(<<Prop("tags", TypeFragment(Some(TypeText("array")), Some(FALSE), Some(TRUE), None,
                                      Some(TypeText("User")))),
            Prop("at", TypeFragment(None, Some(TRUE), None, Some(<<>>), None))>>)}

ItemTypes ==
    {None, Some(TypeText("User")),
     Some(TypeFragment(Some(TypeText("object")), Some(TRUE), None, None, None))}

TypeFragments ==
    {TypeFragment(type, required, deprecated, properties, items) :
        type \in DeclaredTypes, required \in {None, Some(TRUE), Some(FALSE)},
        deprecated \in {None, Some(TRUE)}, properties \in PropertySets, items \in ItemTypes}

\* Bodies: a type expression, a fragment, a body of an example alone, an
\* empty body, a body with a JSON schema.
Bodies ==
    {TypeText("object"), TypeText("User"), EmptyFragment,
     [EmptyFragment EXCEPT !.example = Some("e")],
     [EmptyFragment EXCEPT !.schema = Some(None)],
     [EmptyFragment EXCEPT !.schema = Some(Some(BareObject))],
     TypeFragment(Some(UserType), Some(TRUE), None, None, None),
     TypeFragment(Some(TypeList(<<TypeText("User")>>)), None, None, None, None),
     TypeFragment(Some(TypeText("User")), None, None, None, None),
     TypeFragment(Some(TypeText("array")), None, None, None, Some(TypeText("User"))),
     TypeFragment(None, None, None,
                  Some(<<Prop("owner", TypeFragment(Some(TypeText("User")), Some(TRUE),
                                                    None, None, None))>>), None)}

\* call: the types section of the entry document and the body of one of its
\* methods; result: the component schemas and the schema of the body.
InitSchemas ==
    /\ \E typeData \in TypeExpressions \cup TypeFragments, body \in Bodies :
          call = [types |-> <<Prop("User", UserType), Prop("T", typeData)>>, body |-> body]
    /\ result = [schemas |-> <<>>, body |-> None]
    /\ callStatus = "called"
    /\ IdleInclude /\ IdleTraits /\ IdleMapper /\ IdleValidate

\* convertRamlToOasSpec: "Convert data types/schemas"
ConvertTypes ==
    /\ callStatus = "called"
    /\ result' = [result EXCEPT
                    !.schemas = [i \in 1..Len(call.types) |->
                                    Prop(call.types[i].k, convertDataType(call.types[i].v))]]
    /\ callStatus' = "types"
    /\ UNCHANGED <<call, includeVars, traitVars, mapperVars, validateVars>>

\* convertMethod: schema: convertBodySchema(bodyData, false)
ConvertBody ==
    /\ callStatus = "types"
    /\ result' = [result EXCEPT !.body = Some(convertBodySchema(call.body))]
    /\ callStatus' = "converted"
    /\ UNCHANGED <<call, includeVars, traitVars, mapperVars, validateVars>>

NextSchemas == ConvertTypes \/ ConvertBody

SpecSchemas == InitSchemas /\ [][NextSchemas]_vars

\* ---- claims about the schemas of the structural mapper ----

\* A schema and every schema under it: the members of its oneOf, its
\* properties, its items.
RECURSIVE NodesOf(_)
NodesOf(node) ==
    {node}
    \cup (IF node.oneOf = None THEN {}
          ELSE UNION {NodesOf(node.oneOf[1][i]) : i \in 1..Len(node.oneOf[1])})
    \cup (IF node.properties = None THEN {}
          ELSE UNION {NodesOf(node.properties[1][i].v) : i \in 1..Len(node.properties[1])})
    \cup (IF node.items = None THEN {} ELSE NodesOf(node.items[1]))

\* The node carries both flags, and additionalProperties: false when its
\* type is object.
FlaggedAndClosed(node) ==
    /\ node.deprecated # None /\ node.nullable # None
    /\ node.type = Some("object") => node.additionalProperties = Some(FALSE)

\* The fragment says required: true.
DeclaresRequired(source) == source.t = "fragment" /\ source.required = Some(TRUE)

\* The fragment whose properties and items a source is converted with: the
\* source, or the fragment its type was expanded to.
RECURSIVE ConvertedFragment(_)
ConvertedFragment(source) ==
    IF source.t = "fragment" /\ IsExpanded(source)
    THEN ConvertedFragment(BaseType(source)) ELSE source

\* nullable is false at the schema of a source, and at the schemas of its
\* properties and items, exactly where the source says required.
RECURSIVE NullableAsDeclared(_, _, _)
NullableAsDeclared(source, converted, node) ==
    /\ node.nullable = Some(~DeclaresRequired(source))
    /\ (converted.t = "fragment" /\ converted.properties # None)
       => /\ node.properties # None
          /\ \A i \in 1..Len(converted.properties[1]) :
                NullableAsDeclared(converted.properties[1][i].v,
                                   ConvertedFragment(converted.properties[1][i].v),
                                   node.properties[1][i].v)
    /\ (converted.t = "fragment" /\ converted.items # None)
       => /\ node.items # None
          /\ NullableAsDeclared(converted.items[1], ConvertedFragment(converted.items[1]),
                                node.items[1])

\* The schema emitted for a source is as the claim states.
EmittedAsStated(source, schema) ==
    /\ \A node \in NodesOf(schema) : FlaggedAndClosed(node)
    /\ NullableAsDeclared(source, ConvertedFragment(source), schema)

\* C25: every schema of the compiled document, component schemas and the
\* schemas of bodies with their union members, properties and items, that
\* has type object carries additionalProperties: false, every one carries
\* deprecated and nullable, and nullable is false exactly when the source
\* fragment says required.
C25_FlaggedAndClosed ==
    callStatus = "converted" =>
        /\ \A i \in 1..Len(call.types) :
              EmittedAsStated(call.types[i].v, result.schemas[i].v)
        /\ EmittedAsStated(call.body, result.body[1])

\* No type of the fragment, of its properties or of its items was expanded
\* to a fragment.
RECURSIVE NothingExpanded(_)
NothingExpanded(source) ==
    source.t = "fragment" =>
        /\ ~IsExpanded(source)
        /\ source.properties # None
           => \A i \in 1..Len(source.properties[1]) :
                 NothingExpanded(source.properties[1][i].v)
        /\ source.items # None => NothingExpanded(source.items[1])

\* The type is a union written as a type expression and not as the type
\* of a fragment.
IsBareUnion(source) == source.t = "text" /\ StrIncludes(source.s, "|")

\* The same of the component schemas alone, but of the schema of a union
\* written as a type expression, and with nullable looked at where no type
\* was expanded to a fragment.
ComponentSchemasFlaggedAndClosed ==
    callStatus \in {"types", "converted"} =>
        \A i \in 1..Len(call.types) :
            /\ \A node \in NodesOf(result.schemas[i].v) :
                  FlaggedAndClosed(node)
                  \/ (IsBareUnion(call.types[i].v) /\ node = result.schemas[i].v)
            /\ (NothingExpanded(call.types[i].v) /\ ~IsBareUnion(call.types[i].v))
               => NullableAsDeclared(call.types[i].v, call.types[i].v, result.schemas[i].v)

\* A component schema with a required property, properties and items under
\* it, and a union among them.
ComponentSchemasCases ==
    /\ callStatus = "types"
    /\ call.types[2].v.t = "fragment"
    /\ call.types[2].v.required = Some(TRUE)
    /\ call.types[2].v.type = Some(TypeText("User[] | object[]"))
    /\ call.types[2].v.properties # None /\ call.types[2].v.properties[1] # <<>>
    /\ result.schemas[2].v.nullable = Some(FALSE)
    /\ Cardinality(NodesOf(result.schemas[2].v)) > 5

\* The name a source gives as its type, when the types section of the
\* entry document declares that name.
NamedType(source) ==
    LET name == IF source.t = "text" THEN Some(source.s)
                ELSE IF source.t = "fragment" /\ source.type # None
                        /\ source.type[1].t = "text"
                THEN Some(source.type[1].s)
                ELSE None
    IN  IF name # None /\ name[1] \in OwnKeys(call.types) THEN name ELSE None

\* The schema has the base type and the properties of the schema named.
SameTypeAndProperties(node, named) ==
    node.type = named.type /\ node.properties = named.properties

\* The schema of a source that names a declared type is that of the type.
InlinedWhereNamed(source, node) ==
    NamedType(source) # None
    => SameTypeAndProperties(node, Get(result.schemas, NamedType(source)[1]))

\* The properties and the items of a fragment, with the schemas emitted
\* for them.
InlinedUnder(source, node) ==
    source.t = "fragment" /\ ~IsExpanded(source) =>
        /\ source.properties # None
           => \A i \in 1..Len(source.properties[1]) :
                 InlinedWhereNamed(source.properties[1][i].v, node.properties[1][i].v)
        /\ source.items # None => InlinedWhereNamed(source.items[1], node.items[1])

\* C26: a property, a body or the items of an array whose type names a
\* type of the entry document's own types section is emitted with the
\* schema of that type: the same base type and the same properties.
C26_LocalTypesInlined ==
    callStatus = "converted" =>
        /\ InlinedWhereNamed(call.body, result.body[1])
        /\ \A i \in 1..Len(call.types) : InlinedUnder(call.types[i].v, result.schemas[i].v)

\* A source whose type was expanded to the type User, as the types of a
\* library are where they are referred to, is emitted with the schema of
\* User.
ExpandedTypesInlined ==
    callStatus = "converted" =>
        /\ (call.body.t = "fragment" /\ call.body.type = Some(UserType))
           => SameTypeAndProperties(result.body[1], Get(result.schemas, "User"))
        /\ \A i \in 1..Len(call.types) :
              (call.types[i].v.t = "fragment" /\ call.types[i].v.type = Some(UserType))
              => SameTypeAndProperties(result.schemas[i].v, Get(result.schemas, "User"))

\* A body and a type whose types were expanded to the type User.
ExpandedTypesCases ==
    /\ callStatus = "converted"
    /\ call.body.t = "fragment" /\ call.body.type = Some(UserType)
    /\ call.types[2].v.t = "fragment" /\ call.types[2].v.type = Some(UserType)
    /\ result.body[1].properties # None

(***************************************************************************)
(* What the claim about valid and errors speaks of.                        *)
(***************************************************************************)
\* C27: whatever validatePayload returns, from whichever of its return
\* statements, valid is true if and only if errors is empty.
C27_ValidIffNoErrors ==
    (Settled /\ outcome.kind = "returned") => (outcome.valid <=> outcome.errors = <<>>)

\* A call answered by the return that follows the validation of the body,
\* with errors, and so with valid false.
C27_Witness ==
    /\ Settled /\ outcome.kind = "returned"
    /\ request.mainContent # None /\ request.options.type = "request"
    /\ StrSplit(request.options.path, "?")[1] = "/users"
    /\ Len(outcome.errors) >= 2
    /\ ~outcome.valid

\* The return statements of validatePayload that were reached, by what they
\* report.
ReturnPathsTaken ==
    /\ Settled /\ outcome.kind = "returned"
    /\ outcome.errors # <<>>
    /\ outcome.errors[1].kind \in {"pathNotFound", "methodNotDefined", "noRequestBody",
                                   "noSchema", "noSuccessResponse"}

(***************************************************************************)
(* What the claim about payload shapes speaks of.                          *)
(***************************************************************************)
\* The body is a JSON value validated against a schema of type object
\* that has required names, declared properties or additionalProperties:
\* false.
IsObjectSchemaCall ==
    /\ Settled /\ IsBodyCall
    /\ request.options.payload.t # "undefined"
    /\ BodySchema.ref = None /\ BodySchema.type = "object"
    /\ \/ BodySchema.required # None /\ BodySchema.required[1] # <<>>
       \/ BodySchema.properties # None /\ BodySchema.properties[1] # <<>>
       \/ BodySchema.additionalProperties = "false"

\* The call returned, and a body that is no object, null included, was
\* reported at the root.
ShapeReported ==
    /\ outcome.kind = "returned"
    /\ JsonType(request.options.payload) # "object"
       => (ErrorsAt("root") # <<>> /\ ~outcome.valid)

\* C28: whatever JSON value is validated against a schema of type object
\* with required names, declared properties or additionalProperties:
\* false, the validation returns, and a value that is no object, null
\* included, is reported as an error, so that valid is false.
C28_NeverRaisesOnShape ==
    IsObjectSchemaCall => ShapeReported

\* The value is null or an object with a null among its properties.
HoldsNull(value) ==
    \/ value.t = "null"
    \/ (value.t = "object"
        /\ \E i \in 1..Len(value.entries) : value.entries[i].v.t = "null")

\* The same of the bodies that hold no null.
ShapeReportedButNull ==
    (IsObjectSchemaCall /\ ~HoldsNull(request.options.payload)) => ShapeReported

\* A number, a text and an array reported at the root of an object schema
\* that has required names.
ShapeReportedCases ==
    /\ IsObjectSchemaCall /\ BodySchema.required # None
    /\ request.options.payload.t \in {"number", "string", "array", "boolean"}
    /\ Len(ErrorsAt("root")) = 1 /\ ~outcome.valid

(***************************************************************************)
(* What the claim about enum speaks of.                                    *)
(***************************************************************************)
\* The body is a value of the scalar type its schema declares, the schema
\* has an enum, and the value is none of its members.
IsOutsideEnum(types) ==
    /\ Settled /\ IsBodyCall
    /\ BodySchema.ref = None /\ BodySchema.type \in types
    /\ BodySchema.enum # None
    /\ ~MismatchesType(request.options.payload, BodySchema)
    /\ request.options.payload.t \in {"number", "boolean", "string"}
    /\ \A i \in 1..Len(BodySchema.enum[1]) : BodySchema.enum[1][i] # request.options.payload

\* The value was reported once as being outside the enum.
EnumReported ==
    outcome.kind = "returned" /\ Len(ErrorsOfKindAt("enum", "root")) = 1

\* C29: a number, an integer or a boolean that is no member of the enum of
\* its schema yields one error, as a text outside the enum of a string
\* schema does.
C29_EnumOfEveryScalarType ==
    IsOutsideEnum({"number", "integer", "boolean", "string"}) => EnumReported

\* The same of the texts alone.
EnumOfStrings ==
    IsOutsideEnum({"string"}) => EnumReported

\* A text outside the enum of a string schema, reported.
EnumOfStringsCases ==
    IsOutsideEnum({"string"}) /\ EnumReported /\ ~outcome.valid

(***************************************************************************)
(* What the claim about array-typed parameters speaks of.                  *)
(***************************************************************************)
\* The text is a literal of the type: a numeric literal, one without a
\* fraction for integer, true or false for boolean, any text for string.
IsLiteralOf(type, text) ==
    CASE type = "number" -> IsNumericText(text)
      [] type = "integer" -> IsNumericText(text) /\ ToNumber(text).num.e = 0
      [] type = "boolean" -> text \in {"true", "false"}
      [] OTHER -> TRUE

\* The parameter is declared as an array of the item types asked about and
\* was given a text whose segments between commas, trimmed, are literals
\* of the item type.
IsListOfLiterals(paramDef, itemTypes) ==
    /\ ParamSchema(paramDef).type = "array"
    /\ ParamSchema(paramDef).items # None
    /\ Resolved(ParamSchema(paramDef).items[1]).type \in itemTypes
    /\ HasText(paramDef)
    /\ \A i \in 1..Len(StrSplit(TextOf(paramDef), ",")) :
          IsLiteralOf(Resolved(ParamSchema(paramDef).items[1]).type,
                      Trim(StrSplit(TextOf(paramDef), ",")[i]))

\* The call returned with no error at the parameter nor at its elements.
ListAccepted(paramDef) ==
    outcome.kind = "returned" /\ ErrorsUnder(paramDef.name) = <<>>

\* C30: a text of comma-separated literals given for a parameter declared
\* as an array of integer, number or boolean validates without errors of
\* type: the elements are coerced to the item type as the values of
\* scalar parameters are.
C30_ListElementsCoerced ==
    IsParameterCall =>
        \A i \in 1..Len(DeclaredParams) :
            IsListOfLiterals(DeclaredParams[i], {"integer", "number", "boolean"})
            => ListAccepted(DeclaredParams[i])

\* The same of the arrays of string, whose elements need no coercion.
ListOfStringsAccepted ==
    IsParameterCall =>
        \A i \in 1..Len(DeclaredParams) :
            IsListOfLiterals(DeclaredParams[i], {"string"}) => ListAccepted(DeclaredParams[i])

\* A text of two segments given for an array of string, and accepted.
ListOfStringsCases ==
    /\ IsParameterCall
    /\ IsListOfLiterals(DeclaredParams[1], {"string"})
    /\ Len(StrSplit(TextOf(DeclaredParams[1]), ",")) = 2
    /\ outcome = ReturnedValid
====
